---- MODULE Spec2Model ----
(***************************************************************************)
(* openfpv-compat: the Normalizer (load_parts and its canonicalization     *)
(* helpers) and the Rule Evaluator (build_compat), modelled from           *)
(* src/openfpv_compat/engine.py and src/openfpv_compat/schema.py, and the  *)
(* summary of the result tables, from src/openfpv_compat/summarize.py.     *)
(*                                                                         *)
(* Text is a TLA+ string; the string functions of Python work on the       *)
(* sequence of its characters (Chars) and give a string back (Join).       *)
(* Numbers are exact decimals held in tenths (5.1 is 51, headroom 1.2 is   *)
(* 12); a cell of a table is a record [t, n, s, l] whose tag t says which  *)
(* of NaN / number / text / list of texts it holds.                        *)
(*                                                                         *)
(* Left out: the expansion of an attrs column (engine.py 137-146 and       *)
(* 174-179), directories and repeated paths in _collect_files (183-200;    *)
(* every file of the model is a distinct path), and binary rounding of     *)
(* float products (no rating of the model sits on a threshold), and the    *)
(* dtype test of DataFrame.merge, which can reject a join of a column of   *)
(* texts with a column of NaN only.                                        *)
(***************************************************************************)
EXTENDS Integers, Sequences, FiniteSets, TLC

VARIABLES
    fn,       \* canonicalization under test: which helper is applied
    arg,      \* its input value
    out1,     \* its result on arg
    out2,     \* its result on its own result (the re-normalization)
    cpc,      \* "arg" -> "once" -> "twice"
    files,    \* the source files handed to load_parts, in order
    parts,    \* the table load_parts returned (or the exception it raised)
    compat,   \* headroom -> what build_compat returned for parts (or raised)
    pc,       \* "input" -> "loaded" (-> build_compat runs)
    results,  \* the mapping handed to summarize: its (pair, table) items in insertion order
    summary,  \* the rows summarize returned
    spc       \* "input" -> "done"

vars == <<fn, arg, out1, out2, cpc, files, parts, compat, pc, results, summary, spc>>

----------------------------------------------------------------------------
(* Python str primitives over character sequences *)

Chars(s) == [i \in 1..Len(s) |-> SubSeq(s, i, i)]

RECURSIVE Join(_)
Join(cs) == IF cs = <<>> THEN "" ELSE Head(cs) \o Join(Tail(cs))

\* the characters str.strip() and str.split() treat as whitespace
Whitespace == {" ", "\t", "\n"}

LowerChars == Chars("abcdefghijklmnopqrstuvwxyz")
UpperChars == Chars("ABCDEFGHIJKLMNOPQRSTUVWXYZ")

UpperChar(c) ==
    IF \E i \in 1..Len(LowerChars) : LowerChars[i] = c
    THEN UpperChars[CHOOSE i \in 1..Len(LowerChars) : LowerChars[i] = c]
    ELSE c

LowerChar(c) ==
    IF \E i \in 1..Len(UpperChars) : UpperChars[i] = c
    THEN LowerChars[CHOOSE i \in 1..Len(UpperChars) : UpperChars[i] = c]
    ELSE c

Upper(cs) == [i \in 1..Len(cs) |-> UpperChar(cs[i])]
Lower(cs) == [i \in 1..Len(cs) |-> LowerChar(cs[i])]

RECURSIVE LStrip(_)
LStrip(cs) ==
    IF cs # <<>> /\ Head(cs) \in Whitespace THEN LStrip(Tail(cs)) ELSE cs

RECURSIVE RStrip(_)
RStrip(cs) ==
    IF cs # <<>> /\ cs[Len(cs)] \in Whitespace
    THEN RStrip(SubSeq(cs, 1, Len(cs) - 1))
    ELSE cs

Strip(cs) == RStrip(LStrip(cs))

\* str.replace(old, new): every occurrence of old, left to right
RECURSIVE Replace(_, _, _)
Replace(cs, old, new) ==
    IF Len(cs) < Len(old) \/ old = <<>> THEN cs
    ELSE IF SubSeq(cs, 1, Len(old)) = old
    THEN new \o Replace(SubSeq(cs, Len(old) + 1, Len(cs)), old, new)
    ELSE <<Head(cs)>> \o Replace(Tail(cs), old, new)

\* sub in cs
Contains(cs, sub) ==
    \E i \in 1..(Len(cs) - Len(sub) + 1) : SubSeq(cs, i, i + Len(sub) - 1) = sub

\* cs.split(sep) for a one-character sep: empty pieces are kept
RECURSIVE SplitOn(_, _)
SplitOn(cs, sep) ==
    IF \E i \in 1..Len(cs) : cs[i] = sep
    THEN LET i == CHOOSE k \in 1..Len(cs) :
                      cs[k] = sep /\ \A m \in 1..(k - 1) : cs[m] # sep
         IN  <<SubSeq(cs, 1, i - 1)>> \o SplitOn(SubSeq(cs, i + 1, Len(cs)), sep)
    ELSE <<cs>>

\* cs.split(): runs of whitespace separate the words, no empty word
RECURSIVE SplitWs(_)
SplitWs(cs) ==
    LET s == LStrip(cs)
    IN  IF s = <<>> THEN <<>>
        ELSE IF \E i \in 1..Len(s) : s[i] \in Whitespace
        THEN LET i == CHOOSE k \in 1..Len(s) :
                          s[k] \in Whitespace /\ \A m \in 1..(k - 1) : s[m] \notin Whitespace
             IN  <<SubSeq(s, 1, i - 1)>> \o SplitWs(SubSeq(s, i + 1, Len(s)))
        ELSE <<s>>

\* sep.join(words), over character sequences
RECURSIVE JoinWith(_, _)
JoinWith(words, sep) ==
    IF words = <<>> THEN <<>>
    ELSE IF Len(words) = 1 THEN words[1]
    ELSE words[1] \o sep \o JoinWith(Tail(words), sep)

\* x in list
InSeq(x, xs) == \E i \in 1..Len(xs) : xs[i] = x

----------------------------------------------------------------------------
(* Optional values: Python's None against a text *)

None == [none |-> TRUE, s |-> ""]
Some(str) == [none |-> FALSE, s |-> str]

----------------------------------------------------------------------------
(* Values: what a cell of a table, or an argument of a helper, can hold *)

NoneV == [t |-> "none", n |-> 0, s |-> "", l |-> <<>>]
NaN == [t |-> "nan", n |-> 0, s |-> "", l |-> <<>>]
Num(k) == [t |-> "num", n |-> k, s |-> "", l |-> <<>>]
Str(str) == [t |-> "str", n |-> 0, s |-> str, l |-> <<>>]
List(strs) == [t |-> "list", n |-> 0, s |-> "", l |-> strs]

\* pd.isna / Series.dropna: None and NaN are the missing values
IsNull(v) == v.t \in {"none", "nan"}

Digits == Chars("0123456789")

RECURSIVE NatStr(_)
NatStr(k) == IF k < 10 THEN Digits[k + 1] ELSE NatStr(k \div 10) \o Digits[(k % 10) + 1]

\* str(x) of a float held in tenths: 51 is "5.1", -20 is "-2.0"
FloatStr(k) ==
    IF k < 0 THEN "-" \o NatStr((0 - k) \div 10) \o "." \o NatStr((0 - k) % 10)
    ELSE NatStr(k \div 10) \o "." \o NatStr(k % 10)

RECURSIVE ListRepr(_)
ListRepr(strs) ==
    IF strs = <<>> THEN ""
    ELSE IF Len(strs) = 1 THEN "'" \o strs[1] \o "'"
    ELSE "'" \o strs[1] \o "', " \o ListRepr(Tail(strs))

\* str(v)
PyStr(v) ==
    CASE v.t = "none" -> "None"
      [] v.t = "nan" -> "nan"
      [] v.t = "num" -> FloatStr(v.n)
      [] v.t = "str" -> v.s
      [] v.t = "list" -> "[" \o ListRepr(v.l) \o "]"

----------------------------------------------------------------------------
(* schema.py *)

ALLOWED_MOUNTS == {"9x9", "12x12", "16x16", "19x19", "20x20", "25.5x25.5", "30.5x30.5"}

normalize_type(v) ==
    IF v.t # "str" THEN ""
    ELSE LET s0 == Join(Lower(Strip(Chars(v.s))))
             s1 == IF s0 \in {"motors"} THEN "motor" ELSE s0
             s2 == IF s1 \in {"props", "propellers"} THEN "prop" ELSE s1
             s3 == IF s2 \in {"batteries"} THEN "battery" ELSE s2
         IN  s3

----------------------------------------------------------------------------
(* engine.py: normalization helpers *)

\* lines 39-42: the legacy aliases
MountAlias(t) ==
    LET t1 == IF t = "30x30" THEN "30.5x30.5" ELSE t
    IN  IF t1 = "25x25" THEN "25.5x25.5" ELSE t1

\* line 43 without its "t not in out"
MountKeepDuplicates(t, out) == t \in ALLOWED_MOUNTS

\* line 43: the token is appended
MountKeep(t, out) == t \in ALLOWED_MOUNTS /\ ~InSeq(t, out)

\* lines 34-45: the loop over the tokens
RECURSIVE MountFold(_, _)
MountFold(toks, out) ==
    IF toks = <<>> THEN out
    ELSE LET t0 == Join(Lower(Strip(Head(toks))))
             t == MountAlias(t0)
         IN  IF t0 = "" THEN MountFold(Tail(toks), out)
             ELSE IF MountKeep(t, out) THEN MountFold(Tail(toks), Append(out, t))
             ELSE MountFold(Tail(toks), out)

\* lines 30-33: the tokens of a list, or of a comma-separated text
MountTokens(val) ==
    IF val.t = "list"
    THEN [i \in 1..Len(val.l) |-> Chars(val.l[i])]
    ELSE SplitOn(Replace(Replace(Chars(PyStr(val)), Chars("×"), Chars("x")),
                         Chars(" "), <<>>), ",")

_canon_mount_list(val) ==
    IF val.t = "none" THEN <<>> ELSE MountFold(MountTokens(val), <<>>)

\* lines 52-53: uppercase, separators to blanks, blanks collapsed
ConnectorKey(value) ==
    LET s0 == Upper(Strip(Chars(PyStr(value))))
        s1 == Replace(Replace(Replace(s0, Chars("_"), Chars(" ")),
                              Chars("-"), Chars(" ")), Chars("."), Chars(" "))
    IN  JoinWith(SplitWs(s1), Chars(" "))

_canon_connector(value) ==
    IF value.t = "none" THEN None
    ELSE LET s == ConnectorKey(value)
         IN  IF Contains(s, Chars("RP SMA")) THEN Some("RP-SMA")
             ELSE IF Contains(s, Chars("SMA")) THEN Some("SMA")
             ELSE IF Contains(s, Chars("MMCX")) THEN Some("MMCX")
             ELSE IF Contains(s, Chars("MCX")) /\ ~Contains(s, Chars("MMCX")) THEN Some("MCX")
             ELSE IF Contains(s, Chars("MHF4")) \/ Contains(s, Chars("IPEX 4")) THEN Some("IPEX MHF4")
             ELSE IF Contains(s, Chars("MHF1")) \/ Contains(s, Chars("IPEX 1")) THEN Some("IPEX MHF1")
             ELSE IF Contains(s, Chars("U FL")) \/ Contains(s, Chars("UFL"))
                     \/ Contains(s, Chars("IPEX")) THEN Some("U.FL")
             ELSE None

\* line 75
PowerKey(v) ==
    Join(Replace(Replace(Upper(Strip(Chars(PyStr(v)))), Chars(" "), <<>>), Chars("-"), <<>>))

\* lines 76-82 with an unknown token nulled to the empty text instead of passed through
PowerNameUnknownDropped(t) ==
    IF t \in {"XT30", "AMASSXT30", "XT30U"} THEN "XT30"
    ELSE IF t \in {"XT60", "AMASSXT60", "XT60H"} THEN "XT60"
    ELSE IF t \in {"XT90", "XT90S"} THEN "XT90"
    ELSE IF t \in {"EC3"} THEN "EC3"
    ELSE IF t \in {"EC5"} THEN "EC5"
    ELSE IF t \in {"JSTRCY", "JST"} THEN "JST-RCY"
    ELSE ""

\* lines 76-82
PowerName(t) ==
    IF t \in {"XT30", "AMASSXT30", "XT30U"} THEN "XT30"
    ELSE IF t \in {"XT60", "AMASSXT60", "XT60H"} THEN "XT60"
    ELSE IF t \in {"XT90", "XT90S"} THEN "XT90"
    ELSE IF t \in {"EC3"} THEN "EC3"
    ELSE IF t \in {"EC5"} THEN "EC5"
    ELSE IF t \in {"JSTRCY", "JST"} THEN "JST-RCY"
    ELSE t

_canon_power_conn(v) ==
    IF v.t = "none" \/ v.t = "nan" THEN None ELSE Some(PowerName(PowerKey(v)))

_canon_prop_hub(v) ==
    IF v.t = "none" \/ v.t = "nan" THEN None
    ELSE LET s == Replace(Replace(Lower(Strip(Chars(PyStr(v)))), Chars("-"), <<>>),
                          Chars("_"), <<>>)
         IN  IF Contains(s, Chars("m5")) \/ Contains(s, Chars("5mm")) THEN Some("M5")
             ELSE IF Contains(s, Chars("tmount")) \/ Join(s) \in {"t", "tmnt"}
             THEN Some("T-MOUNT")
             ELSE None

\* engine.py line 272: the text load_parts stores for a mount list
MountText(lst) == Join(JoinWith([i \in 1..Len(lst) |-> Chars(lst[i])], Chars(", ")))

----------------------------------------------------------------------------
(* engine.py: numeric coercion *)

IsDigit(c) == InSeq(c, Digits)
DigitVal(c) == (CHOOSE i \in 1..Len(Digits) : Digits[i] = c) - 1

RECURSIVE NatVal(_)
NatVal(cs) ==
    IF cs = <<>> THEN 0
    ELSE NatVal(SubSeq(cs, 1, Len(cs) - 1)) * 10 + DigitVal(cs[Len(cs)])

\* float(text): an optionally signed decimal, surrounding whitespace ignored; the value
\* is kept in tenths (no text of the model has more than one fractional digit)
ParseFloat(str) ==
    LET s == Strip(Chars(str))
        neg == s # <<>> /\ Head(s) = "-"
        body == IF s # <<>> /\ Head(s) \in {"-", "+"} THEN Tail(s) ELSE s
        ps == SplitOn(body, ".")
        ip == ps[1]
        fp == IF Len(ps) = 2 THEN ps[2] ELSE <<>>
        wellformed == /\ Len(ps) <= 2
                      /\ Len(ip) + Len(fp) > 0
                      /\ \A i \in 1..Len(ip) : IsDigit(ip[i])
                      /\ \A i \in 1..Len(fp) : IsDigit(fp[i])
        mag == NatVal(ip) * 10 + (IF fp = <<>> THEN 0 ELSE DigitVal(fp[1]))
    IN  IF wellformed THEN [ok |-> TRUE, n |-> IF neg THEN 0 - mag ELSE mag]
        ELSE [ok |-> FALSE, n |-> 0]

_to_float(x) ==
    CASE x.t = "num" -> x
      [] x.t = "str" -> IF ParseFloat(x.s).ok THEN Num(ParseFloat(x.s).n) ELSE NaN
      [] OTHER -> NaN

----------------------------------------------------------------------------
(* schema.py: the typed fields *)

TYPE_FIELDS ==
    [frame |-> {"frame_max_prop_in", "frame_fc_mount_pattern_eff", "frame_motor_mount_pattern_eff"},
     motor |-> {"shaft_mm", "max_current_a", "cells_min", "cells_max", "motor_mount_pattern_eff"},
     esc |-> {"esc_continuous_current_a", "esc_cells_min", "esc_cells_max", "esc_batt_connector",
              "esc_mount_pattern_eff"},
     battery |-> {"battery_connector", "cell_count"},
     fc |-> {"fc_mount_pattern_eff", "fc_bec_5v_a", "fc_bec_9v_a", "fc_bec_10v_a", "fc_bec_12v_a",
             "fc_vbat_min_s", "fc_vbat_max_s"},
     vtx |-> {"vtx_system", "vtx_ant_conn", "vtx_5v_current_a", "vtx_9v_current_a",
              "vtx_10v_current_a", "vtx_12v_current_a", "vtx_input_s_min", "vtx_input_s_max"},
     camera |-> {"camera_system", "camera_input_v_min", "camera_input_v_max",
                 "camera_5v_current_a", "camera_10v_current_a", "camera_12v_current_a"},
     prop |-> {"prop_diameter_in", "prop_pitch_in", "prop_blade_count", "prop_hub"},
     antenna |-> {"antenna_conn", "antenna_band_ghz", "antenna_use"},
     rx |-> {"rx_ant_conn", "rx_band_ghz"},
     pigtail |-> {"pigtail_connector", "pigtail_awg", "pigtail_length_mm"},
     capacitor |-> {"capacitor_voltage_v", "capacitor_uf"}]

ALL_FIELDS == UNION {TYPE_FIELDS[k] : k \in DOMAIN TYPE_FIELDS}

----------------------------------------------------------------------------
(* engine.py: data loading.  A source file is                                *)
(*   [suffix, ok, header, rows]: ok says whether its text parses; header is  *)
(* the column line of a CSV; a row maps the fields it supplies to values.    *)
(* A table (DataFrame) is [raised, cols, rows]: raised names the exception   *)
(* that ended the call, "" when it returned.                                 *)

Table(cols, rows) == [raised |-> "", cols |-> cols, rows |-> rows]
Raised(exc) == [raised |-> exc, cols |-> {}, rows |-> <<>>]

\* a row seen with the columns cols: a field it lacks is NaN
Pad(r, cols) == [c \in cols |-> IF c \in DOMAIN r THEN r[c] ELSE NaN]

FileCols(f) == f.header \cup UNION {DOMAIN f.rows[i] : i \in 1..Len(f.rows)}

\* pd.read_csv is not guarded: a file it cannot parse raises
_read_one_csv(f) ==
    IF ~f.ok THEN Raised("ParserError")
    ELSE Table(FileCols(f), [i \in 1..Len(f.rows) |-> Pad(f.rows[i], FileCols(f))])

\* json.loads is guarded: a file it cannot parse is an empty frame
_read_one_json(f) ==
    IF ~f.ok THEN Table({}, <<>>)
    ELSE Table(FileCols(f), [i \in 1..Len(f.rows) |-> Pad(f.rows[i], FileCols(f))])

\* lines 215-220: one frame per .csv / .json file, other suffixes skipped
RECURSIVE ReadFrames(_)
ReadFrames(fs) ==
    IF fs = <<>> THEN <<>>
    ELSE LET f == Head(fs)
         IN  IF f.suffix = ".csv" THEN <<_read_one_csv(f)>> \o ReadFrames(Tail(fs))
             ELSE IF f.suffix = ".json" THEN <<_read_one_json(f)>> \o ReadFrames(Tail(fs))
             ELSE ReadFrames(Tail(fs))

\* pd.concat(frames, ignore_index=True, sort=False)
RECURSIVE ConcatRows(_, _)
ConcatRows(frames, cols) ==
    IF frames = <<>> THEN <<>>
    ELSE [i \in 1..Len(Head(frames).rows) |-> Pad(Head(frames).rows[i], cols)]
             \o ConcatRows(Tail(frames), cols)

Concat(frames) ==
    LET cols == UNION {frames[i].cols : i \in 1..Len(frames)}
    IN  Table(cols, ConcatRows(frames, cols))

\* df.rename(columns={from: to})
Rename(df, from, to) ==
    LET cols == (df.cols \ {from}) \cup {to}
    IN  Table(cols, [i \in 1..Len(df.rows) |->
                        [c \in cols |-> IF c = to THEN df.rows[i][from] ELSE df.rows[i][c]]])

\* df[col] = vals, one value for every row
Assign(df, col, vals) ==
    LET cols == df.cols \cup {col}
    IN  Table(cols, [i \in 1..Len(df.rows) |->
                        [c \in cols |-> IF c = col THEN vals[i] ELSE df.rows[i][c]]])

\* df[col].apply(...): the rows the new values are computed from
Rows(df) == 1..Len(df.rows)

\* lines 229-232: an alias is renamed only when the canonical column is absent
AliasColumns(df) ==
    LET d1 == IF "type" \notin df.cols /\ "part_type" \in df.cols
              THEN Rename(df, "part_type", "type") ELSE df
    IN  IF "name" \notin d1.cols /\ "generic_name" \in d1.cols
        THEN Rename(d1, "generic_name", "name") ELSE d1

\* lines 234-236 and 243-245: df[c] = v for every column c of a list that df lacks
DefaultColumns(df, wanted, v) ==
    LET cols == df.cols \cup wanted
    IN  Table(cols, [i \in 1..Len(df.rows) |->
                        [c \in cols |-> IF c \in df.cols THEN df.rows[i][c] ELSE v]])

\* Series.astype(str)
AsText(v) == Str(PyStr(v))

\* lines 238-240
CoreColumns(df) ==
    LET sku == [i \in Rows(df) |-> AsText(df.rows[i]["sku"])]
        name == [i \in Rows(df) |-> AsText(df.rows[i]["name"])]
        type == [i \in Rows(df) |-> Str(normalize_type(AsText(df.rows[i]["type"])))]
    IN  Assign(Assign(Assign(df, "sku", sku), "name", name), "type", type)

numeric_cols ==
    {"frame_max_prop_in", "prop_diameter_in", "prop_pitch_in", "prop_blade_count",
     "shaft_mm", "max_current_a", "cells_min", "cells_max",
     "esc_continuous_current_a", "esc_cells_min", "esc_cells_max",
     "cell_count",
     "fc_bec_5v_a", "fc_bec_9v_a", "fc_bec_10v_a", "fc_bec_12v_a",
     "fc_vbat_min_s", "fc_vbat_max_s",
     "vtx_5v_current_a", "vtx_9v_current_a", "vtx_10v_current_a", "vtx_12v_current_a",
     "vtx_input_s_min", "vtx_input_s_max",
     "camera_input_v_min", "camera_input_v_max",
     "camera_5v_current_a", "camera_10v_current_a", "camera_12v_current_a",
     "antenna_band_ghz",
     "pigtail_awg", "pigtail_length_mm",
     "capacitor_voltage_v", "capacitor_uf"}

mount_cols ==
    {"frame_fc_mount_pattern_eff", "frame_motor_mount_pattern_eff", "fc_mount_pattern_eff",
     "esc_mount_pattern_eff", "motor_mount_pattern_eff"}

\* line 272
MountCell(v) == IF v.t \in {"str", "list"} THEN Str(MountText(_canon_mount_list(v))) ELSE NaN

\* an optional text as a cell
OptCell(o) == IF o.none THEN NoneV ELSE Str(o.s)

\* lines 265-267: every numeric column the table has, through _to_float
NumericColumns(df) ==
    Table(df.cols, [i \in Rows(df) |->
                       [c \in df.cols |-> IF c \in numeric_cols THEN _to_float(df.rows[i][c])
                                          ELSE df.rows[i][c]]])

\* lines 270-272: every mount column the table has, as canonical text
MountColumns(df) ==
    Table(df.cols, [i \in Rows(df) |->
                       [c \in df.cols |-> IF c \in mount_cols THEN MountCell(df.rows[i][c])
                                          ELSE df.rows[i][c]]])

\* lines 274-290: the derived *_eff columns
EffColumns(df) ==
    LET vtx == [i \in Rows(df) |-> OptCell(_canon_connector(df.rows[i]["vtx_ant_conn"]))]
        ant == [i \in Rows(df) |-> OptCell(_canon_connector(df.rows[i]["antenna_conn"]))]
        bat == [i \in Rows(df) |-> OptCell(_canon_power_conn(df.rows[i]["battery_connector"]))]
        esc == [i \in Rows(df) |-> OptCell(_canon_power_conn(df.rows[i]["esc_batt_connector"]))]
        pig == [i \in Rows(df) |-> OptCell(_canon_power_conn(df.rows[i]["pigtail_connector"]))]
        hub == [i \in Rows(df) |-> OptCell(_canon_prop_hub(df.rows[i]["prop_hub"]))]
        d1 == IF "vtx_ant_conn_eff" \notin df.cols THEN Assign(df, "vtx_ant_conn_eff", vtx) ELSE df
        d2 == Assign(d1, "antenna_conn_eff", ant)
        d3 == Assign(d2, "battery_connector_eff", bat)
        d4 == Assign(d3, "esc_batt_connector_eff", esc)
        d5 == Assign(d4, "pigtail_connector_eff", pig)
    IN  Assign(d5, "prop_hub_eff", hub)

\* lines 225-292: the normalization of the concatenated frame
Normalize(df0) ==
    LET d1 == AliasColumns(df0)
        d2 == DefaultColumns(d1, {"sku", "type", "name"}, Str(""))
        d3 == CoreColumns(d2)
        d4 == DefaultColumns(d3, ALL_FIELDS, NaN)
        d5 == NumericColumns(d4)
        d6 == MountColumns(d5)
    IN  EffColumns(d6)

load_parts(fs) ==
    LET frames == ReadFrames(fs)
    IN  IF fs = <<>> THEN Table({"sku", "type", "name"}, <<>>)
        ELSE IF \E i \in 1..Len(frames) : frames[i].raised # "" THEN Raised("ParserError")
        ELSE IF frames = <<>> THEN Table({"sku", "type", "name"}, <<>>)
        ELSE Normalize(Concat(frames))

----------------------------------------------------------------------------
(* engine.py: compat primitives.  A result table is [columns, rows]: the     *)
(* column list in order, and one record per row over those columns, whose    *)
(* status and reason are texts and whose other fields are cells.  In the    *)
(* reason texts the signs U+2264 and U+2265 are written <= and >=.          *)

Result(columns, rows) == [columns |-> columns, rows |-> rows]

\* df[df["type"] == ty]
Slice(df, ty) == SelectSeq(df.rows, LAMBDA r : r["type"] = Str(ty))

\* rows.dropna(subset=...)
DropNa(rows, subset) == SelectSeq(rows, LAMBDA r : \A c \in subset : ~IsNull(r[c]))

\* every pair of a row of a and a row of b, a's order first
Pairs(a, b) ==
    [k \in 1..(Len(a) * Len(b)) |->
        <<a[((k - 1) \div Len(b)) + 1], b[((k - 1) % Len(b)) + 1]>>]

_cartesian(a, b) == IF a = <<>> \/ b = <<>> THEN <<>> ELSE Pairs(a, b)

\* two join keys match: equal values, and a missing key matches a missing key
KeyEq(x, y) == IF IsNull(x) \/ IsNull(y) THEN IsNull(x) /\ IsNull(y) ELSE x = y

\* a.merge(b, left_on=ka, right_on=kb, how="inner")
Merge(a, b, ka, kb) == SelectSeq(Pairs(a, b), LAMBDA p : KeyEq(p[1][ka], p[2][kb]))

Max(x, y) == IF x >= y THEN x ELSE y
Min(x, y) == IF x <= y THEN x ELSE y

\* None when a bound is missing, else whether the ranges meet
_s_overlap(a_min, a_max, b_min, b_max) ==
    IF IsNull(a_min) \/ IsNull(a_max) \/ IsNull(b_min) \/ IsNull(b_max) THEN "None"
    ELSE IF Max(a_min.n, b_min.n) <= Min(a_max.n, b_max.n) THEN "True"
    ELSE "False"

_motor_hub_from_shaft(shaft_mm) ==
    IF _to_float(shaft_mm).t # "num" THEN None
    ELSE IF _to_float(shaft_mm).n >= 48 THEN Some("M5")
    ELSE IF _to_float(shaft_mm).n <= 21 THEN Some("T-MOUNT")
    ELSE None

\* set(_canon_mount_list(s))
MountSet(v) == {_canon_mount_list(v)[i] : i \in 1..Len(_canon_mount_list(v))}

----------------------------------------------------------------------------
(* engine.py: build_compat, rule by rule *)

\* line 342 were equal sizes to fail
FramePropOkStrict(prop_diameter_in, frame_max_prop_in) == prop_diameter_in.n < frame_max_prop_in.n

\* line 342: j["prop_diameter_in"] <= j["frame_max_prop_in"]
FramePropOk(prop_diameter_in, frame_max_prop_in) == prop_diameter_in.n <= frame_max_prop_in.n

\* lines 336-344
FrameProp(df) ==
    LET frp == DropNa(Slice(df, "frame"), {"frame_max_prop_in"})
        prp == DropNa(Slice(df, "prop"), {"prop_diameter_in"})
        j == _cartesian(frp, prp)
        row(p) ==
            LET ok == FramePropOk(p[2]["prop_diameter_in"], p[1]["frame_max_prop_in"])
            IN  [frame_sku |-> p[1]["sku"], frame_name |-> p[1]["name"],
                 prop_sku |-> p[2]["sku"], prop_name |-> p[2]["name"],
                 frame_max_prop_in |-> p[1]["frame_max_prop_in"],
                 prop_diameter_in |-> p[2]["prop_diameter_in"],
                 status |-> IF ok THEN "PASS" ELSE "FAIL",
                 reason |-> IF ok THEN "Prop diameter <= frame max" ELSE "Prop diameter > frame max"]
    IN  IF j # <<>>
        THEN Result(<<"frame_sku", "frame_name", "prop_sku", "prop_name", "frame_max_prop_in",
                      "prop_diameter_in", "status", "reason">>, [k \in 1..Len(j) |-> row(j[k])])
        ELSE Result(<<"frame_sku", "frame_name", "prop_sku", "prop_name", "frame_max_prop_in",
                      "prop_diameter_in", "status", "reason">>, <<>>)

\* the verdict of a mount rule were it to ask that every pattern of the left side is
\* a pattern of the right side
MountVerdictSubset(a, b, pass) ==
    IF MountSet(a) # {} /\ MountSet(a) \subseteq MountSet(b)
    THEN [status |-> "PASS", reason |-> pass]
    ELSE [status |-> "FAIL", reason |-> "No common mount pattern"]

\* lines 353-355, 367-369, 381-383: the verdict of a mount rule
MountVerdict(a, b, pass) ==
    IF MountSet(a) \cap MountSet(b) # {}
    THEN [status |-> "PASS", reason |-> pass]
    ELSE [status |-> "FAIL", reason |-> "No common mount pattern"]

\* lines 346-358
FrameFc(df) ==
    LET fr_fc == DropNa(Slice(df, "frame"), {"frame_fc_mount_pattern_eff"})
        fc_m == DropNa(Slice(df, "fc"), {"fc_mount_pattern_eff"})
        x == _cartesian(fr_fc, fc_m)
        row(p) ==
            LET v == MountVerdict(p[1]["frame_fc_mount_pattern_eff"], p[2]["fc_mount_pattern_eff"],
                                  "Mount pattern overlaps")
            IN  [frame_sku |-> p[1]["sku"], frame_name |-> p[1]["name"],
                 fc_sku |-> p[2]["sku"], fc_name |-> p[2]["name"],
                 status |-> v.status, reason |-> v.reason]
    IN  IF fr_fc # <<>> /\ fc_m # <<>>
        THEN Result(<<"frame_sku", "frame_name", "fc_sku", "fc_name", "status", "reason">>,
                    [k \in 1..Len(x) |-> row(x[k])])
        ELSE Result(<<"frame_sku", "frame_name", "fc_sku", "fc_name", "status", "reason">>, <<>>)

\* lines 360-372
FrameMotor(df) ==
    LET fr_mo == DropNa(Slice(df, "frame"), {"frame_motor_mount_pattern_eff"})
        mo_m == DropNa(Slice(df, "motor"), {"motor_mount_pattern_eff"})
        x == _cartesian(fr_mo, mo_m)
        row(p) ==
            LET v == MountVerdict(p[1]["frame_motor_mount_pattern_eff"],
                                  p[2]["motor_mount_pattern_eff"], "Mount pattern overlaps")
            IN  [frame_sku |-> p[1]["sku"], frame_name |-> p[1]["name"],
                 motor_sku |-> p[2]["sku"], motor_name |-> p[2]["name"],
                 status |-> v.status, reason |-> v.reason]
    IN  IF fr_mo # <<>> /\ mo_m # <<>>
        THEN Result(<<"frame_sku", "frame_name", "motor_sku", "motor_name", "status", "reason">>,
                    [k \in 1..Len(x) |-> row(x[k])])
        ELSE Result(<<"frame_sku", "frame_name", "motor_sku", "motor_name", "status", "reason">>,
                    <<>>)

\* lines 374-386
EscFc(df) ==
    LET es_m == DropNa(Slice(df, "esc"), {"esc_mount_pattern_eff"})
        fc_m == DropNa(Slice(df, "fc"), {"fc_mount_pattern_eff"})
        x == _cartesian(es_m, fc_m)
        row(p) ==
            LET v == MountVerdict(p[1]["esc_mount_pattern_eff"], p[2]["fc_mount_pattern_eff"],
                                  "Form factor matches")
            IN  [esc_sku |-> p[1]["sku"], esc_name |-> p[1]["name"],
                 fc_sku |-> p[2]["sku"], fc_name |-> p[2]["name"],
                 status |-> v.status, reason |-> v.reason]
    IN  IF es_m # <<>> /\ fc_m # <<>>
        THEN Result(<<"esc_sku", "esc_name", "fc_sku", "fc_name", "status", "reason">>,
                    [k \in 1..Len(x) |-> row(x[k])])
        ELSE Result(<<"esc_sku", "esc_name", "fc_sku", "fc_name", "status", "reason">>, <<>>)

\* lines 393-400 with an unknown cell count or bound failing
BatteryEscVerdictUnknownFails(cell_count, cells_min, cells_max) ==
    LET mask_known == ~IsNull(cell_count) /\ ~IsNull(cells_min) /\ ~IsNull(cells_max)
        within == mask_known /\ cell_count.n >= cells_min.n /\ cell_count.n <= cells_max.n
    IN  IF within THEN [status |-> "PASS", reason |-> "Connector + cells OK"]
        ELSE [status |-> "FAIL", reason |-> "Cells out of ESC range"]

\* lines 393-400: the verdict of a battery and an ESC whose connectors match
BatteryEscVerdict(cell_count, cells_min, cells_max) ==
    LET mask_known == ~IsNull(cell_count) /\ ~IsNull(cells_min) /\ ~IsNull(cells_max)
        within == mask_known /\ cell_count.n >= cells_min.n /\ cell_count.n <= cells_max.n
    IN  IF mask_known /\ ~within THEN [status |-> "FAIL", reason |-> "Cells out of ESC range"]
        ELSE IF mask_known /\ within THEN [status |-> "PASS", reason |-> "Connector + cells OK"]
        ELSE [status |-> "PASS", reason |-> "Connector matched"]

\* lines 388-403
BatteryEsc(df) ==
    LET ba == DropNa(Slice(df, "battery"), {"battery_connector_eff"})
        es == DropNa(Slice(df, "esc"), {"esc_batt_connector_eff"})
        j == Merge(ba, es, "battery_connector_eff", "esc_batt_connector_eff")
        row(p) ==
            LET v == BatteryEscVerdict(p[1]["cell_count"], p[2]["esc_cells_min"],
                                       p[2]["esc_cells_max"])
            IN  [battery_sku |-> p[1]["sku"], battery_name |-> p[1]["name"],
                 esc_sku |-> p[2]["sku"], esc_name |-> p[2]["name"],
                 battery_connector_eff |-> p[1]["battery_connector_eff"],
                 esc_cells_min |-> p[2]["esc_cells_min"], esc_cells_max |-> p[2]["esc_cells_max"],
                 cell_count |-> p[1]["cell_count"],
                 status |-> v.status, reason |-> v.reason]
    IN  IF j # <<>>
        THEN Result(<<"battery_sku", "battery_name", "esc_sku", "esc_name", "battery_connector_eff",
                      "esc_cells_min", "esc_cells_max", "cell_count", "status", "reason">>,
                    [k \in 1..Len(j) |-> row(j[k])])
        ELSE Result(<<"battery_sku", "battery_name", "esc_sku", "esc_name", "battery_connector_eff",
                      "esc_cells_min", "esc_cells_max", "cell_count", "status", "reason">>, <<>>)

\* lines 411-417 without line 416: overlapping cells alone do not pass
_eval_basic_current_only(r) ==
    LET cur_ok == /\ ~IsNull(r[1]["esc_continuous_current_a"])
                  /\ ~IsNull(r[2]["max_current_a"])
                  /\ r[1]["esc_continuous_current_a"].n >= r[2]["max_current_a"].n
        cells_ok == _s_overlap(r[1]["esc_cells_min"], r[1]["esc_cells_max"],
                               r[2]["cells_min"], r[2]["cells_max"])
    IN  IF cells_ok = "False" THEN [status |-> "FAIL", reason |-> "Cell ranges do not overlap"]
        ELSE IF cur_ok
        THEN [status |-> "PASS",
              reason |-> "current OK" \o (IF cells_ok = "True" THEN " & cells overlap" ELSE "")]
        ELSE [status |-> "WARN", reason |-> "insufficient data"]

\* lines 411-417: r is an (ESC, motor) pair
_eval_basic(r) ==
    LET cur_ok == /\ ~IsNull(r[1]["esc_continuous_current_a"])
                  /\ ~IsNull(r[2]["max_current_a"])
                  /\ r[1]["esc_continuous_current_a"].n >= r[2]["max_current_a"].n
        cells_ok == _s_overlap(r[1]["esc_cells_min"], r[1]["esc_cells_max"],
                               r[2]["cells_min"], r[2]["cells_max"])
    IN  IF cells_ok = "False" THEN [status |-> "FAIL", reason |-> "Cell ranges do not overlap"]
        ELSE IF cur_ok
        THEN [status |-> "PASS",
              reason |-> "current OK" \o (IF cells_ok = "True" THEN " & cells overlap" ELSE "")]
        ELSE IF cells_ok = "True"
        THEN [status |-> "PASS", reason |-> "cells overlap (current unknown)"]
        ELSE [status |-> "WARN", reason |-> "insufficient data"]

\* line 430 with the headroom read as a margin over the motor current
HeadroomOkMargin(esc_a, headroom, motor_a) == (esc_a - motor_a) * 10 >= headroom * motor_a

\* the comparison of line 430 turned around
HeadroomOkReversed(esc_a, headroom, motor_a) == esc_a * 10 <= headroom * motor_a

\* line 430: esc_continuous_current_a >= headroom * max_current_a, all three in tenths
HeadroomOk(esc_a, headroom, motor_a) == esc_a * 10 >= headroom * motor_a

\* lines 424-431 with the cell test before the current test, and missing cells a WARN
_eval_head_warns(r, headroom) ==
    LET cells_ok == _s_overlap(r[1]["esc_cells_min"], r[1]["esc_cells_max"],
                               r[2]["cells_min"], r[2]["cells_max"])
    IN  IF cells_ok = "False" THEN [status |-> "FAIL", reason |-> "Cell ranges do not overlap"]
        ELSE IF IsNull(r[1]["esc_continuous_current_a"]) \/ IsNull(r[2]["max_current_a"])
        THEN [status |-> "FAIL", reason |-> "missing current rating(s)"]
        ELSE IF cells_ok = "None" THEN [status |-> "WARN", reason |-> "missing cell ranges"]
        ELSE IF HeadroomOk(r[1]["esc_continuous_current_a"].n, headroom, r[2]["max_current_a"].n)
        THEN [status |-> "PASS", reason |-> "current >= " \o FloatStr(headroom) \o "× & cells overlap"]
        ELSE [status |-> "FAIL", reason |-> "current < " \o FloatStr(headroom) \o "× & cells overlap"]

\* lines 424-431: r is an (ESC, motor) pair
_eval_head(r, headroom) ==
    LET cells_ok == _s_overlap(r[1]["esc_cells_min"], r[1]["esc_cells_max"],
                               r[2]["cells_min"], r[2]["cells_max"])
    IN  IF IsNull(r[1]["esc_continuous_current_a"]) \/ IsNull(r[2]["max_current_a"])
        THEN [status |-> "FAIL", reason |-> "missing current rating(s)"]
        ELSE IF cells_ok = "False" THEN [status |-> "FAIL", reason |-> "Cell ranges do not overlap"]
        ELSE IF cells_ok = "None" THEN [status |-> "FAIL", reason |-> "missing cell ranges"]
        ELSE IF HeadroomOk(r[1]["esc_continuous_current_a"].n, headroom, r[2]["max_current_a"].n)
        THEN [status |-> "PASS", reason |-> "current >= " \o FloatStr(headroom) \o "× & cells overlap"]
        ELSE [status |-> "FAIL", reason |-> "current < " \o FloatStr(headroom) \o "× & cells overlap"]

\* the row of Compat_esc_motor and Compat_esc_motor_headroom for pair p with verdict v
EscMotorRow(p, v) ==
    [esc_sku |-> p[1]["sku"], esc_name |-> p[1]["name"],
     motor_sku |-> p[2]["sku"], motor_name |-> p[2]["name"],
     esc_continuous_current_a |-> p[1]["esc_continuous_current_a"],
     max_current_a |-> p[2]["max_current_a"],
     esc_cells_min |-> p[1]["esc_cells_min"], esc_cells_max |-> p[1]["esc_cells_max"],
     cells_min |-> p[2]["cells_min"], cells_max |-> p[2]["cells_max"],
     status |-> v.status, reason |-> v.reason]

\* lines 405-422, 438
EscMotor(df) ==
    LET base == _cartesian(Slice(df, "esc"), Slice(df, "motor"))
    IN  IF base # <<>>
        THEN Result(<<"esc_sku", "esc_name", "motor_sku", "motor_name", "esc_continuous_current_a",
                      "max_current_a", "esc_cells_min", "esc_cells_max", "cells_min", "cells_max",
                      "status", "reason">>,
                    [k \in 1..Len(base) |-> EscMotorRow(base[k], _eval_basic(base[k]))])
        ELSE Result(<<"esc_sku", "esc_name", "motor_sku", "motor_name", "esc_continuous_current_a",
                      "max_current_a", "esc_cells_min", "esc_cells_max", "cells_min", "cells_max",
                      "status", "reason">>, <<>>)

\* lines 423-439
EscMotorHeadroom(df, headroom) ==
    LET base == _cartesian(Slice(df, "esc"), Slice(df, "motor"))
    IN  IF base # <<>>
        THEN Result(<<"esc_sku", "esc_name", "motor_sku", "motor_name", "esc_continuous_current_a",
                      "max_current_a", "esc_cells_min", "esc_cells_max", "cells_min", "cells_max",
                      "status", "reason">>,
                    [k \in 1..Len(base) |-> EscMotorRow(base[k], _eval_head(base[k], headroom))])
        ELSE EscMotor(df)

\* the block of lines 405-439 with _eval_head applied in both of its tables
EscMotorBlockHeadroomInBoth(df, headroom) ==
    [basic |-> EscMotorHeadroom(df, headroom), head |-> EscMotorHeadroom(df, headroom)]

\* lines 405-439: the one block that fills Compat_esc_motor and Compat_esc_motor_headroom
EscMotorBlock(df, headroom) ==
    [basic |-> EscMotor(df), head |-> EscMotorHeadroom(df, headroom)]

\* Series.astype(str).str.strip().str.lower()
SysKey(v) == Join(Lower(Strip(Chars(PyStr(v)))))

\* lines 441-453
VtxCamera(df) ==
    LET vt == DropNa(Slice(df, "vtx"), {"sku", "name", "vtx_system"})
        cm == DropNa(Slice(df, "camera"), {"sku", "name", "camera_system"})
        j == SelectSeq(Pairs(vt, cm),
                       LAMBDA p : SysKey(p[1]["vtx_system"]) = SysKey(p[2]["camera_system"]))
        row(p) ==
            [vtx_sku |-> p[1]["sku"], vtx_name |-> p[1]["name"],
             camera_sku |-> p[2]["sku"], camera_name |-> p[2]["name"],
             sys |-> Str(SysKey(p[1]["vtx_system"])),
             status |-> "PASS", reason |-> "Systems match"]
    IN  IF vt # <<>> /\ cm # <<>>
        THEN Result(<<"vtx_sku", "vtx_name", "camera_sku", "camera_name", "sys", "status", "reason">>,
                    [k \in 1..Len(j) |-> row(j[k])])
        ELSE Result(<<"vtx_sku", "vtx_name", "camera_sku", "camera_name", "sys", "status", "reason">>,
                    <<>>)

\* Series.combine_first: the canonical connector, else the raw one
CombineFirst(eff, raw) == IF ~IsNull(eff) THEN eff ELSE raw

\* line 462
AntGate(r) ==
    \/ Join(Lower(Chars(PyStr(r["antenna_use"])))) = "fpv"
    \/ (r["antenna_band_ghz"].t = "num"
          /\ r["antenna_band_ghz"].n >= 54 /\ r["antenna_band_ghz"].n <= 62)

\* lines 455-470
VtxAntenna(df) ==
    LET vt2 == Slice(df, "vtx")
        an == Slice(df, "antenna")
        an2 == SelectSeq(an, AntGate)
        vconn(r) == CombineFirst(r["vtx_ant_conn_eff"], r["vtx_ant_conn"])
        aconn(r) == CombineFirst(r["antenna_conn_eff"], r["antenna_conn"])
        j == SelectSeq(Pairs(vt2, an2), LAMBDA p : KeyEq(vconn(p[1]), aconn(p[2])))
        row(p) ==
            [vtx_sku |-> p[1]["sku"], vtx_name |-> p[1]["name"],
             antenna_sku |-> p[2]["sku"], antenna_name |-> p[2]["name"],
             conn |-> vconn(p[1]),
             status |-> "PASS", reason |-> "RF connector matches"]
    IN  IF vt2 # <<>> /\ an # <<>>
        THEN Result(<<"vtx_sku", "vtx_name", "antenna_sku", "antenna_name", "conn", "status",
                      "reason">>, [k \in 1..Len(j) |-> row(j[k])])
        ELSE Result(<<"vtx_sku", "vtx_name", "antenna_sku", "antenna_name", "conn", "status",
                      "reason">>, <<>>)

\* lines 472-481
FcVtxVbat(df) ==
    LET fcv == DropNa(Slice(df, "fc"), {"fc_vbat_min_s", "fc_vbat_max_s"})
        vti == DropNa(Slice(df, "vtx"), {"vtx_input_s_min", "vtx_input_s_max"})
        j == _cartesian(fcv, vti)
        row(p) ==
            LET ok == _s_overlap(p[1]["fc_vbat_min_s"], p[1]["fc_vbat_max_s"],
                                 p[2]["vtx_input_s_min"], p[2]["vtx_input_s_max"]) = "True"
            IN  [fc_sku |-> p[1]["sku"], fc_name |-> p[1]["name"],
                 vtx_sku |-> p[2]["sku"], vtx_name |-> p[2]["name"],
                 fc_vbat_min_s |-> p[1]["fc_vbat_min_s"], fc_vbat_max_s |-> p[1]["fc_vbat_max_s"],
                 vtx_input_s_min |-> p[2]["vtx_input_s_min"],
                 vtx_input_s_max |-> p[2]["vtx_input_s_max"],
                 status |-> IF ok THEN "PASS" ELSE "FAIL",
                 reason |-> IF ok THEN "VBAT ranges overlap" ELSE "VBAT ranges do not overlap"]
    IN  IF j # <<>>
        THEN Result(<<"fc_sku", "fc_name", "vtx_sku", "vtx_name", "fc_vbat_min_s", "fc_vbat_max_s",
                      "vtx_input_s_min", "vtx_input_s_max", "status", "reason">>,
                    [k \in 1..Len(j) |-> row(j[k])])
        ELSE Result(<<"fc_sku", "fc_name", "vtx_sku", "vtx_name", "fc_vbat_min_s", "fc_vbat_max_s",
                      "vtx_input_s_min", "vtx_input_s_max", "status", "reason">>, <<>>)

\* lines 484-493: V is the rail's voltage as the reason prints it
_rail(df, fc_col, vtx_col, V) ==
    LET a == DropNa(Slice(df, "fc"), {fc_col})
        b == DropNa(Slice(df, "vtx"), {vtx_col})
        j == _cartesian(a, b)
        row(p) ==
            LET ok == p[1][fc_col].n >= p[2][vtx_col].n
            IN  (fc_col :> p[1][fc_col]) @@ (vtx_col :> p[2][vtx_col]) @@
                [fc_sku |-> p[1]["sku"], fc_name |-> p[1]["name"],
                 vtx_sku |-> p[2]["sku"], vtx_name |-> p[2]["name"],
                 status |-> IF ok THEN "PASS" ELSE "FAIL",
                 reason |-> IF ok THEN "FC " \o V \o "V BEC >= VTX current"
                            ELSE "FC " \o V \o "V BEC < VTX current"]
    IN  IF j = <<>>
        THEN Result(<<"fc_sku", "fc_name", "vtx_sku", "vtx_name", fc_col, vtx_col, "status",
                      "reason">>, <<>>)
        ELSE Result(<<"fc_sku", "fc_name", "vtx_sku", "vtx_name", fc_col, vtx_col, "status",
                      "reason">>, [k \in 1..Len(j) |-> row(j[k])])

\* lines 499-508
FcCam5v(df) ==
    LET a == DropNa(Slice(df, "fc"), {"fc_bec_5v_a"})
        b == DropNa(Slice(df, "camera"), {"camera_5v_current_a"})
        j == _cartesian(a, b)
        row(p) ==
            LET ok == p[1]["fc_bec_5v_a"].n >= p[2]["camera_5v_current_a"].n
            IN  [fc_sku |-> p[1]["sku"], fc_name |-> p[1]["name"],
                 camera_sku |-> p[2]["sku"], camera_name |-> p[2]["name"],
                 fc_bec_5v_a |-> p[1]["fc_bec_5v_a"],
                 camera_5v_current_a |-> p[2]["camera_5v_current_a"],
                 status |-> IF ok THEN "PASS" ELSE "FAIL",
                 reason |-> IF ok THEN "FC 5V BEC >= camera current"
                            ELSE "FC 5V BEC < camera current"]
    IN  IF j # <<>>
        THEN Result(<<"fc_sku", "fc_name", "camera_sku", "camera_name", "fc_bec_5v_a",
                      "camera_5v_current_a", "status", "reason">>, [k \in 1..Len(j) |-> row(j[k])])
        ELSE Result(<<"fc_sku", "fc_name", "camera_sku", "camera_name", "fc_bec_5v_a",
                      "camera_5v_current_a", "status", "reason">>, <<>>)

\* lines 511-521: V is the rail's voltage in volts
_cam_accepts(df, V, fc_col) ==
    LET a == DropNa(Slice(df, "fc"), {fc_col})
        b == DropNa(Slice(df, "camera"), {"camera_input_v_min", "camera_input_v_max"})
        j == _cartesian(a, b)
        row(p) ==
            LET ok == p[2]["camera_input_v_min"].n <= V * 10 /\ p[2]["camera_input_v_max"].n >= V * 10
            IN  [fc_sku |-> p[1]["sku"], fc_name |-> p[1]["name"],
                 camera_sku |-> p[2]["sku"], camera_name |-> p[2]["name"],
                 camera_input_v_min |-> p[2]["camera_input_v_min"],
                 camera_input_v_max |-> p[2]["camera_input_v_max"],
                 status |-> IF ok THEN "PASS" ELSE "FAIL",
                 reason |-> IF ok THEN "Camera accepts " \o NatStr(V) \o "V"
                            ELSE "Camera " \o NatStr(V) \o "V out of range"]
    IN  IF j = <<>>
        THEN Result(<<"fc_sku", "fc_name", "camera_sku", "camera_name", "camera_input_v_min",
                      "camera_input_v_max", "status", "reason">>, <<>>)
        ELSE Result(<<"fc_sku", "fc_name", "camera_sku", "camera_name", "camera_input_v_min",
                      "camera_input_v_max", "status", "reason">>, [k \in 1..Len(j) |-> row(j[k])])

\* float(text) also reads these words
FloatWords == {"nan", "inf", "infinity", "-inf", "+inf", "-nan", "+nan", "-infinity", "+infinity"}

\* line 534: float(x) raises on a present value that is no number
BucketRaises(x) ==
    \/ x.t = "list"
    \/ x.t = "str" /\ ~ParseFloat(x.s).ok /\ Join(Lower(Strip(Chars(x.s)))) \notin FloatWords

\* lines 532-538: the coarse band of a frequency in GHz (tenths)
bucket(x) ==
    IF _to_float(x).t # "num" THEN NaN
    ELSE LET g == _to_float(x).n
         IN  IF g - 58 < 4 /\ 58 - g < 4 THEN Str("5.8")
             ELSE IF g - 24 < 3 /\ 24 - g < 3 THEN Str("2.4")
             ELSE IF 7 <= g /\ g <= 10 THEN Str("0.9")
             ELSE NaN

\* lines 526-528: the two sides of the rx rule
RxSide(df) == DropNa(Slice(df, "rx"), {"rx_ant_conn", "rx_band_ghz"})
RxAntSide(df) == DropNa(Slice(df, "antenna"), {"antenna_conn", "antenna_band_ghz"})

\* lines 539-540: bucket() is applied to every row of both sides, and raises on text
RxAntennaRaises(df) ==
    /\ RxSide(df) # <<>> /\ RxAntSide(df) # <<>>
    /\ \/ \E i \in 1..Len(RxSide(df)) : BucketRaises(RxSide(df)[i]["rx_band_ghz"])
       \/ \E i \in 1..Len(RxAntSide(df)) : BucketRaises(RxAntSide(df)[i]["antenna_band_ghz"])

\* lines 525-547
RxAntenna(df) ==
    LET rx == RxSide(df)
        an == RxAntSide(df)
        rconn(r) == OptCell(_canon_connector(r["rx_ant_conn"]))
        aconn(r) == OptCell(_canon_connector(r["antenna_conn"]))
        j == SelectSeq(Pairs(rx, an),
                       LAMBDA p : /\ KeyEq(rconn(p[1]), aconn(p[2]))
                                  /\ KeyEq(bucket(p[1]["rx_band_ghz"]),
                                           bucket(p[2]["antenna_band_ghz"])))
        row(p) ==
            [rx_sku |-> p[1]["sku"], rx_name |-> p[1]["name"],
             antenna_sku |-> p[2]["sku"], antenna_name |-> p[2]["name"],
             conn |-> rconn(p[1]), bb |-> bucket(p[1]["rx_band_ghz"]),
             status |-> "PASS", reason |-> "Connector + band"]
    IN  IF rx # <<>> /\ an # <<>>
        THEN Result(<<"rx_sku", "rx_name", "antenna_sku", "antenna_name", "conn", "bb", "status",
                      "reason">>, [k \in 1..Len(j) |-> row(j[k])])
        ELSE Result(<<"rx_sku", "rx_name", "antenna_sku", "antenna_name", "conn", "bb", "status",
                      "reason">>, <<>>)

\* lines 549-560
PigtailEsc(df) ==
    LET pg == DropNa(Slice(df, "pigtail"), {"pigtail_connector_eff"})
        es == DropNa(Slice(df, "esc"), {"esc_batt_connector_eff"})
        j == Merge(pg, es, "pigtail_connector_eff", "esc_batt_connector_eff")
        row(p) ==
            [pigtail_sku |-> p[1]["sku"], pigtail_name |-> p[1]["name"],
             esc_sku |-> p[2]["sku"], esc_name |-> p[2]["name"],
             pigtail_connector_eff |-> p[1]["pigtail_connector_eff"],
             status |-> "PASS", reason |-> "Connector matched"]
    IN  IF pg # <<>> /\ es # <<>>
        THEN Result(<<"pigtail_sku", "pigtail_name", "esc_sku", "esc_name", "pigtail_connector_eff",
                      "status", "reason">>, [k \in 1..Len(j) |-> row(j[k])])
        ELSE Result(<<"pigtail_sku", "pigtail_name", "esc_sku", "esc_name", "pigtail_connector_eff",
                      "status", "reason">>, <<>>)

\* lines 562-569
BatteryPigtail(df) ==
    LET pg == DropNa(Slice(df, "pigtail"), {"pigtail_connector_eff"})
        bt == DropNa(Slice(df, "battery"), {"battery_connector_eff"})
        j == Merge(pg, bt, "pigtail_connector_eff", "battery_connector_eff")
        row(p) ==
            [pigtail_sku |-> p[1]["sku"], pigtail_name |-> p[1]["name"],
             battery_sku |-> p[2]["sku"], battery_name |-> p[2]["name"],
             pigtail_connector_eff |-> p[1]["pigtail_connector_eff"],
             status |-> "PASS", reason |-> "Connector matched"]
    IN  IF pg # <<>> /\ bt # <<>>
        THEN Result(<<"pigtail_sku", "pigtail_name", "battery_sku", "battery_name",
                      "pigtail_connector_eff", "status", "reason">>,
                    [k \in 1..Len(j) |-> row(j[k])])
        ELSE Result(<<"pigtail_sku", "pigtail_name", "battery_sku", "battery_name",
                      "pigtail_connector_eff", "status", "reason">>, <<>>)

\* lines 575-578: capacitor_voltage_v >= esc_cells_max * 4.2 * 1.05, both in tenths
CapOk(cap_v, cells_max) == cap_v * 100 >= cells_max * 441

\* lines 571-582: esc_vmax is esc_cells_max * 4.2, in tenths of a volt
CapEsc(df) ==
    LET cap == DropNa(Slice(df, "capacitor"), {"capacitor_voltage_v"})
        esv == DropNa(Slice(df, "esc"), {"esc_cells_max"})
        j == _cartesian(cap, esv)
        row(p) ==
            LET ok == CapOk(p[1]["capacitor_voltage_v"].n, p[2]["esc_cells_max"].n)
            IN  [capacitor_sku |-> p[1]["sku"], capacitor_name |-> p[1]["name"],
                 esc_sku |-> p[2]["sku"], esc_name |-> p[2]["name"],
                 capacitor_voltage_v |-> p[1]["capacitor_voltage_v"],
                 esc_vmax |-> Num((p[2]["esc_cells_max"].n * 42) \div 10),
                 status |-> IF ok THEN "PASS" ELSE "FAIL",
                 reason |-> IF ok THEN "Cap voltage >= VBAT max" ELSE "Cap voltage < VBAT max"]
    IN  IF cap # <<>> /\ esv # <<>>
        THEN Result(<<"capacitor_sku", "capacitor_name", "esc_sku", "esc_name", "capacitor_voltage_v",
                      "esc_vmax", "status", "reason">>, [k \in 1..Len(j) |-> row(j[k])])
        ELSE Result(<<"capacitor_sku", "capacitor_name", "esc_sku", "esc_name", "capacitor_voltage_v",
                      "esc_vmax", "status", "reason">>, <<>>)

\* lines 591-593: the verdict from the two hub classes
HubVerdict(motor_hub, prop_hub) ==
    LET match == ~IsNull(motor_hub) /\ ~IsNull(prop_hub) /\ motor_hub = prop_hub
    IN  IF match THEN [status |-> "PASS", reason |-> "Hub type matches"]
        ELSE IF IsNull(motor_hub) \/ IsNull(prop_hub)
        THEN [status |-> "WARN", reason |-> "Insufficient hub/shaft data"]
        ELSE [status |-> "FAIL", reason |-> "Hub type mismatch"]

\* lines 584-596
MotorPropHub(df) ==
    LET mo_h == Slice(df, "motor")
        pr_h == DropNa(Slice(df, "prop"), {"prop_hub_eff"})
        x == _cartesian(mo_h, pr_h)
        hub(r) == OptCell(_motor_hub_from_shaft(r["shaft_mm"]))
        row(p) ==
            LET v == HubVerdict(hub(p[1]), p[2]["prop_hub_eff"])
            IN  [motor_sku |-> p[1]["sku"], motor_name |-> p[1]["name"],
                 prop_sku |-> p[2]["sku"], prop_name |-> p[2]["name"],
                 shaft_mm |-> p[1]["shaft_mm"], motor_hub_eff |-> hub(p[1]),
                 prop_hub_eff |-> p[2]["prop_hub_eff"],
                 status |-> v.status, reason |-> v.reason]
    IN  IF x # <<>>
        THEN Result(<<"motor_sku", "motor_name", "prop_sku", "prop_name", "shaft_mm", "motor_hub_eff",
                      "prop_hub_eff", "status", "reason">>, [k \in 1..Len(x) |-> row(x[k])])
        ELSE Result(<<"motor_sku", "motor_name", "prop_sku", "prop_name", "shaft_mm", "motor_hub_eff",
                      "prop_hub_eff", "status", "reason">>, <<>>)

\* the columns build_compat selects from the parts table
BuildColumns ==
    {"sku", "type", "name"} \cup ALL_FIELDS \cup
    {"battery_connector_eff", "esc_batt_connector_eff", "pigtail_connector_eff",
     "vtx_ant_conn_eff", "antenna_conn_eff", "prop_hub_eff"}

\* what a call of build_compat gave: the exception it raised ("" when it returned)
\* and the mapping it returned
Returned(tables) == [raised |-> "", tables |-> tables]
Failed(exc) == [raised |-> exc, tables |-> <<>>]

\* lines 313-598
build_compat(df, headroom) ==
    IF ~(BuildColumns \subseteq df.cols) THEN Failed("KeyError")
    ELSE IF RxAntennaRaises(df) THEN Failed("ValueError")
    ELSE Returned(
        [Compat_frame_prop |-> FrameProp(df),
         Compat_frame_fc |-> FrameFc(df),
         Compat_frame_motor |-> FrameMotor(df),
         Compat_esc_fc |-> EscFc(df),
         Compat_battery_esc |-> BatteryEsc(df),
         Compat_esc_motor |-> EscMotorBlock(df, headroom).basic,
         Compat_esc_motor_headroom |-> EscMotorBlock(df, headroom).head,
         Compat_vtx_camera |-> VtxCamera(df),
         Compat_vtx_antenna |-> VtxAntenna(df),
         Compat_fc_vtx_vbat |-> FcVtxVbat(df),
         Compat_fc_vtx_5v |-> _rail(df, "fc_bec_5v_a", "vtx_5v_current_a", "5"),
         Compat_fc_vtx_9v |-> _rail(df, "fc_bec_9v_a", "vtx_9v_current_a", "9"),
         Compat_fc_vtx_10v |-> _rail(df, "fc_bec_10v_a", "vtx_10v_current_a", "10"),
         Compat_fc_vtx_12v |-> _rail(df, "fc_bec_12v_a", "vtx_12v_current_a", "12"),
         Compat_fc_cam_5v |-> FcCam5v(df),
         Compat_fc_cam_10v |-> _cam_accepts(df, 10, "fc_bec_10v_a"),
         Compat_fc_cam_12v |-> _cam_accepts(df, 12, "fc_bec_12v_a"),
         Compat_rx_antenna |-> RxAntenna(df),
         Compat_pigtail_esc |-> PigtailEsc(df),
         Compat_battery_pigtail |-> BatteryPigtail(df),
         Compat_cap_esc |-> CapEsc(df),
         Compat_motor_prop_hub |-> MotorPropHub(df)])

----------------------------------------------------------------------------
(* The canonicalization helpers applied to bounded inputs, and applied again *)
(* to their own results.                                                     *)

MaxFrags == 3

\* every text made of at most k of the fragments
RECURSIVE Concats(_, _)
Concats(frags, k) ==
    IF k = 0 THEN {""}
    ELSE LET prev == Concats(frags, k - 1)
         IN  prev \cup {p \o f : p \in prev, f \in frags}

\* every list of at most k of the tokens
RECURSIVE Lists(_, _)
Lists(toks, k) ==
    IF k = 0 THEN {<<>>}
    ELSE LET prev == Lists(toks, k - 1)
         IN  prev \cup {Append(p, f) : p \in prev, f \in toks}

ConnFrags == {"rp", "SMA", "-", "_", "m", "mcx", "ipex ", "mhf", "4", "1", "u.fl"}
PowerFrags == {"xt", "60", "-", " ", "\t", "jst", "rcy", "amass"}
HubFrags == {"m5", "5MM", "t", "-", "mount", "_", "x"}
TypeFrags == {"motor", "s", "Prop", "ellers", "batteries", " ", "ESC"}
MountFrags == {"30x30", "30.5x30.5", "30.5×30.5", "25X25", ",", " ", "5x5"}
MountListToks == {"30x30", "30.5x30.5", " 25X25 ", "20x20", "5x5"}

Helpers == {"connector", "power", "hub", "type", "mount"}

Inputs(f) ==
    CASE f = "connector" -> {NoneV, NaN} \cup {Str(x) : x \in Concats(ConnFrags, MaxFrags)}
      [] f = "power" -> {NoneV, NaN} \cup {Str(x) : x \in Concats(PowerFrags, MaxFrags)}
      [] f = "hub" -> {NoneV, NaN} \cup {Str(x) : x \in Concats(HubFrags, MaxFrags)}
      [] f = "type" -> {NaN} \cup {Str(x) : x \in Concats(TypeFrags, MaxFrags)}
      [] f = "mount" -> {NoneV, NaN} \cup {Str(x) : x \in Concats(MountFrags, MaxFrags)}
                           \cup {List(x) : x \in Lists(MountListToks, MaxFrags)}

\* the helper f on value v
Apply(f, v) ==
    CASE f = "connector" -> _canon_connector(v)
      [] f = "power" -> _canon_power_conn(v)
      [] f = "hub" -> _canon_prop_hub(v)
      [] f = "type" -> normalize_type(v)
      [] f = "mount" -> _canon_mount_list(v)

\* the helper's result as the value a second normalization reads
Stored(f, r) ==
    CASE f \in {"connector", "power", "hub"} -> IF r.none THEN NoneV ELSE Str(r.s)
      [] f = "type" -> Str(r)
      [] f = "mount" -> Str(MountText(r))

PipelineIdle ==
    /\ files = <<>>
    /\ parts = [raised |-> "", cols |-> {}, rows |-> <<>>]
    /\ compat = <<>>
    /\ pc = "input"

SummaryIdle ==
    /\ results = <<>>
    /\ summary = <<>>
    /\ spc = "input"

CanonIdle ==
    /\ fn = "none"
    /\ arg = NoneV
    /\ out1 = None
    /\ out2 = None
    /\ cpc = "arg"

InitCanon ==
    /\ fn \in Helpers
    /\ arg \in Inputs(fn)
    /\ out1 = None
    /\ out2 = None
    /\ cpc = "arg"
    /\ PipelineIdle
    /\ SummaryIdle

Canonicalize ==
    /\ cpc = "arg"
    /\ fn \in Helpers
    /\ out1' = Apply(fn, arg)
    /\ cpc' = "once"
    /\ UNCHANGED <<fn, arg, out2, files, parts, compat, pc, results, summary, spc>>

Renormalize ==
    /\ cpc = "once"
    /\ out2' = Apply(fn, Stored(fn, out1))
    /\ cpc' = "twice"
    /\ UNCHANGED <<fn, arg, out1, files, parts, compat, pc, results, summary, spc>>

NextCanon == Canonicalize \/ Renormalize

SpecCanon == InitCanon /\ [][NextCanon]_vars

----------------------------------------------------------------------------
(* The pipeline: source files are handed over one by one, load_parts reads   *)
(* them, build_compat evaluates the table for a headroom.                    *)

MaxFiles == 2

\* headroom values, in tenths
Headrooms == {11, 12, 13}

File(suffix, ok, header, rows) == [suffix |-> suffix, ok |-> ok, header |-> header, rows |-> rows]

Airframe ==
    File(".csv", TRUE, {"sku", "type", "name"},
         << [sku |-> Str("F1"), type |-> Str("frame"), name |-> Str("Frame 5in"),
             frame_max_prop_in |-> Num(50),
             frame_fc_mount_pattern_eff |-> Str("30x30, 20x20"),
             frame_motor_mount_pattern_eff |-> Str("16×16")],
            [sku |-> Str("P1"), type |-> Str("props"), name |-> Str("Prop 5in"),
             prop_diameter_in |-> Num(50), prop_hub |-> Str("M5")],
            [sku |-> Str("P2"), type |-> Str("Propellers"), name |-> Str("Prop 5.1in"),
             prop_diameter_in |-> Str("5.1"), prop_hub |-> Str("T-mount")],
            [sku |-> Str("P3"), type |-> Str("prop"), name |-> Str("Prop hex"),
             prop_hub |-> Str("hex")],
            [sku |-> Str("F2"), type |-> Str("frame"), name |-> Str("Frame whoop"),
             frame_fc_mount_pattern_eff |-> Str("25.5x25.5"),
             frame_motor_mount_pattern_eff |-> Str("9x9")] >>)

Power ==
    File(".json", TRUE, {},
         << [sku |-> Str("E1"), type |-> Str("ESC"), name |-> Str("ESC 30A"),
             esc_continuous_current_a |-> Num(300), esc_cells_min |-> Num(30),
             esc_cells_max |-> Num(60), esc_batt_connector |-> Str("XT-60"),
             esc_mount_pattern_eff |-> Str("30.5x30.5")],
            [sku |-> Str("E2"), type |-> Str("esc"), name |-> Str("ESC 23A"),
             esc_continuous_current_a |-> Num(230), esc_cells_min |-> Num(30),
             esc_cells_max |-> Num(60)],
            [sku |-> Str("M1"), type |-> Str("motors"), name |-> Str("Motor 2207"),
             max_current_a |-> Num(200), cells_min |-> Num(40), cells_max |-> Num(60),
             shaft_mm |-> Num(50), motor_mount_pattern_eff |-> List(<<"16x16", "19x19">>)],
            [sku |-> Str("B1"), type |-> Str("batteries"), name |-> Str("LiPo 4S"),
             battery_connector |-> Str("xt60"), cell_count |-> Num(40)],
            [sku |-> Str("B2"), type |-> Str("battery"), name |-> Str("LiPo 2S"),
             battery_connector |-> Str("XT60"), cell_count |-> Num(20)],
            [sku |-> Str("B3"), type |-> Str("battery"), name |-> Str("LiPo ?S"),
             battery_connector |-> Str("xt 60")],
            [sku |-> Str("B4"), type |-> Str("battery"), name |-> Str("LiPo 4S XT30"),
             battery_connector |-> Str("XT30"), cell_count |-> Num(40)],
            [sku |-> Str("B5"), type |-> Str("battery"), name |-> Str("LiPo bare"),
             cell_count |-> Num(40)],
            [sku |-> Str("E3"), type |-> Str("esc"), name |-> Str("ESC bare"),
             esc_batt_connector |-> Str("Amass XT60")] >>)

\* ratings written as negative numbers
Sentinel ==
    File(".json", TRUE, {},
         << [sku |-> Str("E9"), type |-> Str("esc"), name |-> Str("ESC ?"),
             esc_continuous_current_a |-> Num(-12), esc_cells_min |-> Num(30),
             esc_cells_max |-> Num(60)],
            [sku |-> Str("M9"), type |-> Str("motor"), name |-> Str("Motor ?"),
             max_current_a |-> Num(-10), cells_min |-> Num(30), cells_max |-> Num(60),
             shaft_mm |-> Num(30)] >>)

Video ==
    File(".csv", TRUE, {"sku", "type", "name"},
         << [sku |-> Str("V1"), type |-> Str("vtx"), name |-> Str("VTX"),
             vtx_system |-> Str("DJI"), vtx_ant_conn |-> Str("SMA"),
             vtx_5v_current_a |-> Num(10), vtx_9v_current_a |-> Num(25),
             vtx_input_s_min |-> Num(20), vtx_input_s_max |-> Num(60)],
            [sku |-> Str("C1"), type |-> Str("camera"), name |-> Str("Cam"),
             camera_system |-> Str(" dji"), camera_input_v_min |-> Num(50),
             camera_input_v_max |-> Num(110), camera_5v_current_a |-> Num(5)],
            [sku |-> Str("V2"), type |-> Str("vtx"), name |-> Str("VTX BNC"),
             vtx_system |-> Str("analog"), vtx_ant_conn |-> Str("BNC")],
            [sku |-> Str("V3"), type |-> Str("vtx"), name |-> Str("VTX bare"),
             vtx_system |-> Str("analog")],
            [sku |-> Str("FC1"), type |-> Str("fc"), name |-> Str("FC"),
             fc_mount_pattern_eff |-> Str("30x30"), fc_bec_5v_a |-> Num(20),
             fc_bec_9v_a |-> Num(20), fc_bec_10v_a |-> Num(15), fc_bec_12v_a |-> Num(15),
             fc_vbat_min_s |-> Num(30), fc_vbat_max_s |-> Num(60)] >>)

Radio ==
    File(".json", TRUE, {},
         << [sku |-> Str("R1"), type |-> Str("rx"), name |-> Str("RX 2.4"),
             rx_ant_conn |-> Str("u.fl"), rx_band_ghz |-> Num(24)],
            [sku |-> Str("A1"), type |-> Str("antenna"), name |-> Str("Dipole"),
             antenna_conn |-> Str("UFL"), antenna_band_ghz |-> Num(24),
             antenna_use |-> Str("rc")],
            [sku |-> Str("A2"), type |-> Str("antenna"), name |-> Str("Pagoda"),
             antenna_conn |-> Str("rpsma"), antenna_band_ghz |-> Num(58),
             antenna_use |-> Str("FPV")],
            [sku |-> Str("A3"), type |-> Str("antenna"), name |-> Str("Whip BNC"),
             antenna_conn |-> Str("BNC"), antenna_band_ghz |-> Num(58),
             antenna_use |-> Str("fpv")],
            [sku |-> Str("A4"), type |-> Str("antenna"), name |-> Str("Patch bare"),
             antenna_band_ghz |-> Num(58), antenna_use |-> Str("fpv")],
            [sku |-> Str("A5"), type |-> Str("antenna"), name |-> Str("Whip N"),
             antenna_conn |-> Str("N-type"), antenna_band_ghz |-> Num(24),
             antenna_use |-> Str("rc")],
            [sku |-> Str("A6"), type |-> Str("antenna"), name |-> Str("Dipole 1.3"),
             antenna_conn |-> Str("sma"), antenna_band_ghz |-> Num(13),
             antenna_use |-> Str("rc")],
            [sku |-> Str("R3"), type |-> Str("rx"), name |-> Str("RX BNC"),
             rx_ant_conn |-> Str("BNC"), rx_band_ghz |-> Num(24)],
            [sku |-> Str("R4"), type |-> Str("rx"), name |-> Str("RX 3.5"),
             rx_ant_conn |-> Str("SMA"), rx_band_ghz |-> Num(35)] >>)

\* a frequency written as text with its unit
RadioText ==
    File(".csv", TRUE, {"sku", "type", "name", "rx_ant_conn", "rx_band_ghz"},
         << [sku |-> Str("R2"), type |-> Str("rx"), name |-> Str("RX"),
             rx_ant_conn |-> Str("SMA"), rx_band_ghz |-> Str("2.4GHz")] >>)

Extras ==
    File(".json", TRUE, {},
         << [sku |-> Str("G1"), type |-> Str("pigtail"), name |-> Str("Pigtail"),
             pigtail_connector |-> Str("XT60"), pigtail_awg |-> Num(120),
             pigtail_length_mm |-> Num(1000)],
            [sku |-> Str("K1"), type |-> Str("capacitor"), name |-> Str("Cap 35V"),
             capacitor_voltage_v |-> Num(350), capacitor_uf |-> Num(10000)],
            [sku |-> Str("M2"), type |-> Str("motor"), name |-> Str("Motor 1S-2S"),
             max_current_a |-> Num(50), cells_min |-> Num(10), cells_max |-> Num(20)],
            [sku |-> Str("M3"), type |-> Str("motor"), name |-> Str("Motor 10A"),
             max_current_a |-> Num(100)],
            [sku |-> Str("M4"), type |-> Str("motor"), name |-> Str("Motor 1S-2S ?"),
             cells_min |-> Num(10), cells_max |-> Num(20)],
            [sku |-> Str("M5"), type |-> Str("motor"), name |-> Str("Motor 1.5mm"),
             shaft_mm |-> Num(15)],
            [sku |-> Str("M6"), type |-> Str("motor"), name |-> Str("Motor 50A"),
             max_current_a |-> Num(500)],
            [sku |-> Str("M7"), type |-> Str("motor"), name |-> Str("Motor 40A"),
             max_current_a |-> Num(400), cells_min |-> Num(30), cells_max |-> Num(60)] >>)

\* a source with the alias column names and no sku
Aliased ==
    File(".csv", TRUE, {"part_type", "generic_name", "max_current_a"},
         << [part_type |-> Str("Motors"), generic_name |-> Str("Motor 1404"),
             max_current_a |-> Str("n/a")] >>)

\* a record of no known type with no attribute at all
Widget ==
    File(".json", TRUE, {},
         << [sku |-> Str("W1"), type |-> Str("widget"), name |-> Str("Widget")] >>)

BrokenCsv == File(".csv", FALSE, {}, <<>>)
BrokenJson == File(".json", FALSE, {}, <<>>)
EmptyJson == File(".json", TRUE, {}, <<>>)
Notes == File(".txt", TRUE, {}, <<>>)

Catalogue ==
    {Airframe, Power, Sentinel, Video, Radio, RadioText, Extras, Aliased, Widget,
     BrokenCsv, BrokenJson, EmptyJson, Notes}

Init ==
    /\ CanonIdle
    /\ PipelineIdle
    /\ SummaryIdle

AddFile(f) ==
    /\ pc = "input"
    /\ Len(files) < MaxFiles
    /\ files' = Append(files, f)
    /\ UNCHANGED <<fn, arg, out1, out2, cpc, parts, compat, pc, results, summary, spc>>

LoadParts ==
    /\ pc = "input"
    /\ parts' = load_parts(files)
    /\ pc' = "loaded"
    /\ UNCHANGED <<fn, arg, out1, out2, cpc, files, compat, results, summary, spc>>

BuildCompat(h) ==
    /\ pc = "loaded"
    /\ parts.raised = ""
    /\ h \notin DOMAIN compat
    /\ compat' = compat @@ (h :> build_compat(parts, h))
    /\ UNCHANGED <<fn, arg, out1, out2, cpc, files, parts, pc, results, summary, spc>>

Next ==
    \/ \E f \in Catalogue : AddFile(f)
    \/ LoadParts
    \/ \E h \in Headrooms : BuildCompat(h)

Spec == Init /\ [][Next]_vars

----------------------------------------------------------------------------
(* summarize.py: the PASS / FAIL / unknown counts of a mapping of result     *)
(* tables. The mapping is built item by item, then summarize runs on it.     *)

\* schema.py line 46
PASS_VALUES == {"PASS", "OK", "TRUE", "YES", "1"}

\* line 22: df["status"].astype(str).str.upper()
StatusText(v) == Join(Upper(Chars(PyStr(v))))

\* lines 22-28 were every row that is not a pass counted as unknown
SummaryCountsFailTwice(df) ==
    LET s == [i \in 1..Len(df.rows) |-> StatusText(df.rows[i].status)]
    IN  [pass |-> Cardinality({i \in 1..Len(s) : s[i] \in PASS_VALUES}),
         fail |-> Cardinality({i \in 1..Len(s) : s[i] = "FAIL"}),
         unknown |-> Cardinality({i \in 1..Len(s) : s[i] \notin PASS_VALUES})]

\* lines 22-28: the three counts of a table that has a status column
SummaryCounts(df) ==
    LET s == [i \in 1..Len(df.rows) |-> StatusText(df.rows[i].status)]
    IN  [pass |-> Cardinality({i \in 1..Len(s) : s[i] \in PASS_VALUES}),
         fail |-> Cardinality({i \in 1..Len(s) : s[i] = "FAIL"}),
         unknown |-> Cardinality({i \in 1..Len(s) : s[i] \notin PASS_VALUES /\ s[i] # "FAIL"})]

\* lines 15-28: the summary row of one item of the mapping
SummaryRow(item) ==
    IF item.none \/ item.df.rows = <<>> \/ item.df.columns = <<>>
    THEN [pair |-> item.pair, pass |-> 0, fail |-> 0, unknown |-> 0]
    ELSE IF ~InSeq("status", item.df.columns)
    THEN [pair |-> item.pair, pass |-> 0, fail |-> 0, unknown |-> Len(item.df.rows)]
    ELSE LET c == SummaryCounts(item.df)
         IN  [pair |-> item.pair, pass |-> c.pass, fail |-> c.fail, unknown |-> c.unknown]

\* the pair keys of the model, in the order Python compares their texts
PairOrder == <<"Compat_esc_motor", "Compat_frame_prop">>

PairRank(k) == CHOOSE i \in 1..Len(PairOrder) : PairOrder[i] = k

\* line 32: out.sort_values(by=["pair"]).reset_index(drop=True), the keys being distinct
SortByPair(rows) ==
    [i \in 1..Len(rows) |->
        rows[CHOOSE j \in 1..Len(rows) :
                 Cardinality({q \in 1..Len(rows) : PairRank(rows[q].pair) < PairRank(rows[j].pair)})
                     = i - 1]]

\* lines 12-33
summarize(items) == SortByPair([i \in 1..Len(items) |-> SummaryRow(items[i])])

\* most rows of a table handed to summarize
MaxRows == 2

\* the status cells of the tables handed to summarize
Statuses == {Str("PASS"), Str("yes"), Str("Fail"), Str("WARN"), NaN}

\* tables with a status column, of 0..MaxRows rows
StatusTables ==
    {Result(<<"status">>, rows) :
        rows \in UNION {[1..n -> {[status |-> v] : v \in Statuses}] : n \in 0..MaxRows}}

\* structural tables, without a status column
PlainTables == {Result(<<"note">>, [i \in 1..n |-> [note |-> Str("x")]]) : n \in 1..MaxRows}

\* the values of the mapping: a table, or None
SummaryValues ==
    {[none |-> FALSE, df |-> t] : t \in StatusTables \cup PlainTables}
        \cup {[none |-> TRUE, df |-> Result(<<>>, <<>>)]}

\* compat[k] = v for a key the mapping does not have yet
AddTable(k, v) ==
    /\ spc = "input"
    /\ \A i \in 1..Len(results) : results[i].pair # k
    /\ results' = Append(results, [pair |-> k, none |-> v.none, df |-> v.df])
    /\ UNCHANGED <<fn, arg, out1, out2, cpc, files, parts, compat, pc, summary, spc>>

Summarize ==
    /\ spc = "input"
    /\ summary' = summarize(results)
    /\ spc' = "done"
    /\ UNCHANGED <<fn, arg, out1, out2, cpc, files, parts, compat, pc, results>>

NextSummary ==
    \/ \E k \in {PairOrder[i] : i \in 1..Len(PairOrder)}, v \in SummaryValues : AddTable(k, v)
    \/ Summarize

SpecSummary == Init /\ [][NextSummary]_vars

----------------------------------------------------------------------------
(* Claims about the canonicalization helpers (checked under SpecCanon) *)

NotSeparator(c) == c \notin {" ", "-"}

\* C7: the token the claim speaks of: trimmed, uppercased, blanks and hyphens removed
C7_Token(str) == Join(SelectSeq(Upper(Strip(Chars(str))), NotSeparator))

C7_Vocabulary ==
    {"XT30", "AMASSXT30", "XT30U", "XT60", "AMASSXT60", "XT60H", "XT90", "XT90S",
     "EC3", "EC5", "JSTRCY", "JST"}

C7_Canonical(tok) ==
    CASE tok \in {"XT30", "AMASSXT30", "XT30U"} -> "XT30"
      [] tok \in {"XT60", "AMASSXT60", "XT60H"} -> "XT60"
      [] tok \in {"XT90", "XT90S"} -> "XT90"
      [] tok \in {"JSTRCY", "JST"} -> "JST-RCY"
      [] OTHER -> tok

\* C6: _canon_connector resolves ambiguity by priority: text naming a reverse-polarity
\* SMA connector (with or without a separator between RP and SMA) yields RP-SMA and
\* never SMA, MMCX never yields MCX, MHF4 / IPEX 4 yields IPEX MHF4, MHF1 / IPEX 1
\* yields IPEX MHF1, U.FL / UFL / generic IPEX yields U.FL, and nothing else matches.
C6_ConnectorPriority ==
    (fn = "connector" /\ cpc # "arg" /\ arg.t = "str") =>
        LET k == ConnectorKey(arg)
            has(x) == Contains(k, Chars(x))
        IN  out1 = IF has("RP SMA") \/ has("RPSMA") THEN Some("RP-SMA")
                   ELSE IF has("SMA") THEN Some("SMA")
                   ELSE IF has("MMCX") THEN Some("MMCX")
                   ELSE IF has("MCX") THEN Some("MCX")
                   ELSE IF has("MHF4") \/ has("IPEX 4") THEN Some("IPEX MHF4")
                   ELSE IF has("MHF1") \/ has("IPEX 1") THEN Some("IPEX MHF1")
                   ELSE IF has("U FL") \/ has("UFL") \/ has("IPEX") THEN Some("U.FL")
                   ELSE None

\* C7: _canon_power_conn gives null exactly for a null or NaN input; for a text, the
\* trimmed, uppercased token without blanks and hyphens maps to its canonical name when
\* it is in the known vocabulary and is returned as it is otherwise.
C7_PowerConnFallback ==
    (fn = "power" /\ cpc # "arg") =>
        /\ out1.none <=> IsNull(arg)
        /\ arg.t = "str" =>
              out1.s = IF C7_Token(arg.s) \in C7_Vocabulary
                       THEN C7_Canonical(C7_Token(arg.s))
                       ELSE C7_Token(arg.s)
        /\ arg = Str("xt-60") => out1 = Some("XT60")
        /\ arg = Str("xt 60") => out1 = Some("XT60")
        /\ arg = Str("jst rcy") => out1 = Some("JST-RCY")

\* C7 witness: an unknown token passed through, and a vocabulary token canonicalized
C7_Witness ==
    /\ fn = "power" /\ cpc = "once"
    /\ arg = Str("xt-rcy") /\ out1 = Some("XTRCY")

\* C8: the tokens of the input as the claim reads them: the items of a list, or the
\* comma-separated pieces of a text with its blanks removed and the multiplication
\* sign read as x; each trimmed, lowercased and with the legacy aliases mapped
C8_Tokens(v) ==
    LET raw == IF v.t = "list" THEN [i \in 1..Len(v.l) |-> Chars(v.l[i])]
               ELSE IF v.t = "none" THEN <<>>
               ELSE SplitOn(SelectSeq(Replace(Chars(PyStr(v)), Chars("×"), Chars("x")),
                                      LAMBDA c : c # " "), ",")
        low(i) == Join(Lower(Strip(raw[i])))
    IN  [i \in 1..Len(raw) |->
            IF low(i) = "30x30" THEN "30.5x30.5"
            ELSE IF low(i) = "25x25" THEN "25.5x25.5"
            ELSE low(i)]

C8_First(toks, t) == CHOOSE i \in 1..Len(toks) : toks[i] = t /\ \A k \in 1..(i - 1) : toks[k] # t

\* C8: _canon_mount_list returns only allowed mount patterns, without duplicates, in
\* the order of their first occurrence in the input, with 30x30 and 25x25 mapped to
\* (and merged with) 30.5x30.5 and 25.5x25.5, every other token being dropped.
C8_MountList ==
    (fn = "mount" /\ cpc # "arg") =>
        LET toks == C8_Tokens(arg)
            allowed == {"9x9", "12x12", "16x16", "19x19", "20x20", "25.5x25.5", "30.5x30.5"}
        IN  /\ \A i \in 1..Len(out1) : out1[i] \in allowed
            /\ \A i, j \in 1..Len(out1) : i # j => out1[i] # out1[j]
            /\ {out1[i] : i \in 1..Len(out1)} = {toks[i] : i \in 1..Len(toks)} \cap allowed
            /\ \A i, j \in 1..Len(out1) :
                   i < j => C8_First(toks, out1[i]) < C8_First(toks, out1[j])

\* C8 witness: a legacy alias merged with the explicit pattern that follows it
C8_Witness ==
    /\ fn = "mount" /\ cpc = "once"
    /\ arg = Str("30x30,30.5x30.5") /\ out1 = <<"30.5x30.5">>

\* C9: every canonical form is a fixed point: the helper applied to its own non-null
\* result (for mounts, to the comma-joined text load_parts stores) returns that result.
C9_Idempotent ==
    (cpc = "twice") =>
        CASE fn \in {"connector", "power", "hub"} -> (~out1.none => out2 = out1)
          [] fn \in {"type", "mount"} -> out2 = out1

----------------------------------------------------------------------------
(* Claims about load_parts and build_compat (checked under Spec) *)

PairKeys ==
    {"Compat_frame_prop", "Compat_frame_fc", "Compat_frame_motor", "Compat_esc_fc",
     "Compat_battery_esc", "Compat_esc_motor", "Compat_esc_motor_headroom",
     "Compat_vtx_camera", "Compat_vtx_antenna", "Compat_fc_vtx_vbat",
     "Compat_fc_vtx_5v", "Compat_fc_vtx_9v", "Compat_fc_vtx_10v", "Compat_fc_vtx_12v",
     "Compat_fc_cam_5v", "Compat_fc_cam_10v", "Compat_fc_cam_12v", "Compat_rx_antenna",
     "Compat_pigtail_esc", "Compat_battery_pigtail", "Compat_cap_esc",
     "Compat_motor_prop_hub"}

\* the result set of a table of zero records that has every column
EmptyBuild(h) == build_compat(load_parts(<<EmptyJson>>), h)

\* a returned mapping has every pair-type key, each table with the column list it has
\* without rows, status and reason last, and every row with exactly those columns
SchemaComplete(b, h) ==
    /\ b.raised = ""
    /\ DOMAIN b.tables = PairKeys
    /\ \A k \in PairKeys :
          LET t == b.tables[k]
              n == Len(t.columns)
          IN  /\ t.columns = EmptyBuild(h).tables[k].columns
              /\ n >= 2 /\ t.columns[n - 1] = "status" /\ t.columns[n] = "reason"
              /\ \A i \in 1..Len(t.rows) :
                     DOMAIN t.rows[i] = {t.columns[j] : j \in 1..n}

\* C1: for every table load_parts produced, with any records or none, build_compat
\* returns a mapping with every fixed pair-type key, each table having the same column
\* list whether it has rows or not, with status and reason as its last two columns.
C1_SchemaComplete ==
    \A h \in DOMAIN compat : SchemaComplete(compat[h], h)

\* C2: when load_parts produced no record at all (no file, or only files that
\* contribute nothing), build_compat on that table does not raise and returns every
\* pair-type key with its default column list and no row.
C2_EmptyLoadBuilds ==
    (pc = "loaded" /\ parts.raised = "" /\ parts.rows = <<>>) =>
        \A h \in DOMAIN compat :
            /\ SchemaComplete(compat[h], h)
            /\ \A k \in PairKeys : compat[h].tables[k].rows = <<>>

\* C3: for any table of records load_parts produced, whatever the attribute values
\* (null, or text that is not a number, rx_band_ghz and antenna_band_ghz included),
\* build_compat does not raise and every row it gives has status PASS, FAIL or WARN.
C3_Total ==
    (pc = "loaded" /\ parts.raised = "" /\ parts.rows # <<>>) =>
        \A h \in DOMAIN compat :
            /\ compat[h].raised = ""
            /\ \A k \in DOMAIN compat[h].tables :
                   \A i \in 1..Len(compat[h].tables[k].rows) :
                       compat[h].tables[k].rows[i].status \in {"PASS", "FAIL", "WARN"}

\* the records of the well-formed .csv and .json files of a list, in order
RECURSIVE ParsedRecords(_)
ParsedRecords(fs) ==
    IF fs = <<>> THEN <<>>
    ELSE (IF Head(fs).ok /\ Head(fs).suffix \in {".csv", ".json"} THEN Head(fs).rows ELSE <<>>)
             \o ParsedRecords(Tail(fs))

\* C4: for any list of source files, some of them malformed, load_parts does not raise:
\* a malformed file contributes no record and the table holds, in order, one record
\* for every record of every well-formed file.
C4_FailureIsolation ==
    (pc = "loaded") =>
        /\ parts.raised = ""
        /\ Len(parts.rows) = Len(ParsedRecords(files))
        /\ \A i \in 1..Len(parts.rows) :
               "sku" \in DOMAIN ParsedRecords(files)[i] =>
                   parts.rows[i]["sku"] = Str(PyStr(ParsedRecords(files)[i]["sku"]))

\* the source record supplies core field c, under its name or its alias
Supplies(r, c) ==
    \/ c \in DOMAIN r
    \/ c = "type" /\ "part_type" \in DOMAIN r
    \/ c = "name" /\ "generic_name" \in DOMAIN r

\* C5: after load_parts every record has a non-null sku, type and name, and a record
\* whose source did not supply one of them has the empty string for it, also when the
\* sources have different column sets.
C5_CoreFields ==
    (pc = "loaded" /\ parts.raised = "" /\ parts.rows # <<>>) =>
        \A i \in 1..Len(parts.rows) :
            \A c \in {"sku", "type", "name"} :
                /\ parts.rows[i][c].t = "str"
                /\ ~Supplies(ParsedRecords(files)[i], c) => parts.rows[i][c] = Str("")

HeadRows(h) == compat[h].tables["Compat_esc_motor_headroom"].rows

\* the headroom rows of two runs are of the same (ESC, motor) pairs in the same order
SamePairs(h1, h2) ==
    /\ Len(HeadRows(h1)) = Len(HeadRows(h2))
    /\ \A i \in 1..Len(HeadRows(h1)) :
           /\ HeadRows(h1)[i].esc_sku = HeadRows(h2)[i].esc_sku
           /\ HeadRows(h1)[i].motor_sku = HeadRows(h2)[i].motor_sku

NegativeRating(r) == r.max_current_a.t = "num" /\ r.max_current_a.n < 0

\* C10 as stated: for any ESC and motor records and any headrooms h1 < h2, a pair
\* that is FAIL in the headroom table at h1 is FAIL at h2.
C10_MonotoneAnyRating ==
    \A h1, h2 \in DOMAIN compat :
        (h1 < h2 /\ compat[h1].raised = "" /\ compat[h2].raised = "") =>
            /\ SamePairs(h1, h2)
            /\ \A i \in 1..Len(HeadRows(h1)) :
                   HeadRows(h1)[i].status = "FAIL" => HeadRows(h2)[i].status = "FAIL"

\* C10 amended: for any ESC and motor records whose motor max_current_a is not
\* negative and any headrooms h1 < h2, a pair that is FAIL in the headroom table at
\* h1 is FAIL at h2.
C10_HeadroomMonotone ==
    \A h1, h2 \in DOMAIN compat :
        (h1 < h2 /\ compat[h1].raised = "" /\ compat[h2].raised = "") =>
            /\ SamePairs(h1, h2)
            /\ \A i \in 1..Len(HeadRows(h1)) :
                   (~NegativeRating(HeadRows(h1)[i]) /\ HeadRows(h1)[i].status = "FAIL")
                       => HeadRows(h2)[i].status = "FAIL"

\* C10 witness: a pair with overlapping cells that passes at 1.1, fails on current at
\* 1.2 and still fails at 1.3
C10_Witness ==
    /\ DOMAIN compat = Headrooms
    /\ \A h \in Headrooms : compat[h].raised = ""
    /\ \E i \in 1..Len(HeadRows(11)) :
           /\ HeadRows(11)[i].max_current_a = Num(200)
           /\ HeadRows(11)[i].esc_continuous_current_a = Num(230)
           /\ HeadRows(11)[i].status = "PASS"
           /\ HeadRows(12)[i].status = "FAIL"
           /\ HeadRows(12)[i].reason = "current < 1.2× & cells overlap"
           /\ HeadRows(13)[i].status = "FAIL"

\* C11: the headroom affects only the headroom rule: two runs of build_compat on the
\* same parts table with different headrooms raise alike and, when they return, give
\* identical tables for every key other than Compat_esc_motor_headroom.
C11_HeadroomOnlyHeadroomRule ==
    \A h1, h2 \in DOMAIN compat :
        /\ compat[h1].raised = compat[h2].raised
        /\ compat[h1].raised = "" =>
               \A k \in PairKeys \ {"Compat_esc_motor_headroom"} :
                   compat[h1].tables[k] = compat[h2].tables[k]

\* C11 witness: two runs whose headroom tables differ and whose basic table has rows
C11_Witness ==
    /\ {11, 12} \subseteq DOMAIN compat
    /\ compat[11].raised = "" /\ compat[12].raised = ""
    /\ HeadRows(11) # HeadRows(12)
    /\ compat[11].tables["Compat_esc_motor"].rows # <<>>
    /\ compat[11].tables["Compat_frame_prop"].rows # <<>>

\* a headroom row of an ESC rated 30 A and a motor rated 20 A
Esc30Motor20(r) == r.esc_continuous_current_a = Num(300) /\ r.max_current_a = Num(200)

CellsOverlap(r) == _s_overlap(r.esc_cells_min, r.esc_cells_max, r.cells_min, r.cells_max) = "True"

\* C12 as stated: an ESC with esc_continuous_current_a = 30 and a motor with
\* max_current_a = 20 are PASS in the headroom table at headroom 1.2 and FAIL at 1.3.
C12_ScenarioAsStated ==
    /\ (12 \in DOMAIN compat /\ compat[12].raised = "") =>
           \A i \in 1..Len(HeadRows(12)) :
               Esc30Motor20(HeadRows(12)[i]) => HeadRows(12)[i].status = "PASS"
    /\ (13 \in DOMAIN compat /\ compat[13].raised = "") =>
           \A i \in 1..Len(HeadRows(13)) :
               Esc30Motor20(HeadRows(13)[i]) => HeadRows(13)[i].status = "FAIL"

\* C12 amended: an ESC with esc_continuous_current_a = 30 and a motor with
\* max_current_a = 20 whose cell ranges are known and overlap are PASS in the headroom
\* table at headroom 1.2 (required 24) and still PASS at 1.3 (required 26).
C12_Scenario ==
    \A h \in {12, 13} :
        (h \in DOMAIN compat /\ compat[h].raised = "") =>
            \A i \in 1..Len(HeadRows(h)) :
                (Esc30Motor20(HeadRows(h)[i]) /\ CellsOverlap(HeadRows(h)[i])) =>
                    /\ HeadRows(h)[i].status = "PASS"
                    /\ HeadRows(h)[i].reason = "current >= " \o FloatStr(h) \o "× & cells overlap"

\* C12 witness: the pair evaluated at 1.2 and at 1.3
C12_Witness ==
    /\ {12, 13} \subseteq DOMAIN compat
    /\ compat[12].raised = "" /\ compat[13].raised = ""
    /\ \E i \in 1..Len(HeadRows(13)) :
           /\ Esc30Motor20(HeadRows(13)[i]) /\ CellsOverlap(HeadRows(13)[i])
           /\ HeadRows(12)[i].status = "PASS" /\ HeadRows(13)[i].status = "PASS"

\* the records of one type of the loaded table, in order
PartsOf(ty) == SelectSeq(parts.rows, LAMBDA r : r["type"] = Str(ty))

\* the (ESC, motor) pair of the k-th row of the cross-product, ESC order first
EscOfRow(k) == PartsOf("esc")[((k - 1) \div Len(PartsOf("motor"))) + 1]
MotorOfRow(k) == PartsOf("motor")[((k - 1) % Len(PartsOf("motor"))) + 1]

Known(v) == v.t = "num"

\* max(a_min, b_min) <= min(a_max, b_max) for the cell ranges of an ESC e and a motor m,
\* all four bounds known
RangesMeet(e, m) ==
    /\ e["esc_cells_min"].n <= e["esc_cells_max"].n /\ m["cells_min"].n <= m["cells_max"].n
    /\ e["esc_cells_min"].n <= m["cells_max"].n /\ m["cells_min"].n <= e["esc_cells_max"].n

AllBoundsKnown(e, m) ==
    /\ Known(e["esc_cells_min"]) /\ Known(e["esc_cells_max"])
    /\ Known(m["cells_min"]) /\ Known(m["cells_max"])

\* the headroom verdict as the claim orders it
C13_Verdict(e, m, h) ==
    IF ~Known(e["esc_continuous_current_a"]) \/ ~Known(m["max_current_a"])
    THEN [status |-> "FAIL", reason |-> "missing current rating(s)"]
    ELSE IF AllBoundsKnown(e, m) /\ ~RangesMeet(e, m)
    THEN [status |-> "FAIL", reason |-> "Cell ranges do not overlap"]
    ELSE IF ~AllBoundsKnown(e, m)
    THEN [status |-> "FAIL", reason |-> "missing cell ranges"]
    ELSE IF e["esc_continuous_current_a"].n * 10 >= h * m["max_current_a"].n
    THEN [status |-> "PASS", reason |-> "current >= " \o FloatStr(h) \o "× & cells overlap"]
    ELSE [status |-> "FAIL", reason |-> "current < " \o FloatStr(h) \o "× & cells overlap"]

\* C13: the headroom table has one row for every ESC x motor pair of the cross-product,
\* and its verdict is, in this order: FAIL when a current rating is missing, FAIL when
\* the cell ranges are disjoint, FAIL when a cell bound is missing, else PASS iff the
\* ESC current >= headroom x motor current and FAIL otherwise; never WARN.
C13_HeadroomVerdict ==
    \A h \in DOMAIN compat :
        compat[h].raised = "" =>
            /\ Len(HeadRows(h)) = Len(PartsOf("esc")) * Len(PartsOf("motor"))
            /\ \A k \in 1..Len(HeadRows(h)) :
                   /\ HeadRows(h)[k].esc_sku = EscOfRow(k)["sku"]
                   /\ HeadRows(h)[k].motor_sku = MotorOfRow(k)["sku"]
                   /\ HeadRows(h)[k].status = C13_Verdict(EscOfRow(k), MotorOfRow(k), h).status
                   /\ HeadRows(h)[k].reason = C13_Verdict(EscOfRow(k), MotorOfRow(k), h).reason
                   /\ HeadRows(h)[k].status # "WARN"

\* C13 witness: one run whose rows take every branch of the verdict
C13_Witness ==
    /\ 12 \in DOMAIN compat /\ compat[12].raised = ""
    /\ \A x \in {"missing current rating(s)", "Cell ranges do not overlap", "missing cell ranges",
                  "current >= 1.2× & cells overlap", "current < 1.2× & cells overlap"} :
           \E k \in 1..Len(HeadRows(12)) : HeadRows(12)[k].reason = x
    /\ \E k \in 1..Len(HeadRows(12)) :
           /\ ~Known(MotorOfRow(k)["max_current_a"])
           /\ AllBoundsKnown(EscOfRow(k), MotorOfRow(k)) /\ ~RangesMeet(EscOfRow(k), MotorOfRow(k))

BasicRows(h) == compat[h].tables["Compat_esc_motor"].rows

CurrentSufficient(e, m) ==
    /\ Known(e["esc_continuous_current_a"]) /\ Known(m["max_current_a"])
    /\ e["esc_continuous_current_a"].n >= m["max_current_a"].n

\* the basic verdict as the claim states it
C14_Status(e, m) ==
    IF AllBoundsKnown(e, m) /\ ~RangesMeet(e, m) THEN "FAIL"
    ELSE IF CurrentSufficient(e, m) \/ (AllBoundsKnown(e, m) /\ RangesMeet(e, m)) THEN "PASS"
    ELSE "WARN"

\* C14: the basic table has one row for every ESC x motor pair of the cross-product (no
\* record is left out for missing data): FAIL when all four cell bounds are known and
\* the ranges are disjoint; otherwise PASS when the current is sufficient or the cell
\* ranges are known to overlap; otherwise WARN with reason "insufficient data".
C14_BasicVerdict ==
    \A h \in DOMAIN compat :
        compat[h].raised = "" =>
            /\ Len(BasicRows(h)) = Len(PartsOf("esc")) * Len(PartsOf("motor"))
            /\ \A k \in 1..Len(BasicRows(h)) :
                   /\ BasicRows(h)[k].esc_sku = EscOfRow(k)["sku"]
                   /\ BasicRows(h)[k].motor_sku = MotorOfRow(k)["sku"]
                   /\ BasicRows(h)[k].status = C14_Status(EscOfRow(k), MotorOfRow(k))
                   /\ BasicRows(h)[k].status = "WARN" => BasicRows(h)[k].reason = "insufficient data"

\* C14 witness: one run with a FAIL, a PASS on current alone, a PASS on cells alone,
\* and a WARN
C14_Witness ==
    \E h \in DOMAIN compat :
        /\ compat[h].raised = ""
        /\ \A x \in {"Cell ranges do not overlap", "current OK", "current OK & cells overlap",
                      "cells overlap (current unknown)", "insufficient data"} :
               \E k \in 1..Len(BasicRows(h)) : BasicRows(h)[k].reason = x

BatEscRows(h) == compat[h].tables["Compat_battery_esc"].rows

\* the (battery, ESC) pairs of records, by position, whose canonical power connectors
\* are both non-null and equal
ConnectorPairs ==
    {<<i, j>> \in (1..Len(PartsOf("battery"))) \X (1..Len(PartsOf("esc"))) :
        /\ ~IsNull(PartsOf("battery")[i]["battery_connector_eff"])
        /\ ~IsNull(PartsOf("esc")[j]["esc_batt_connector_eff"])
        /\ PartsOf("battery")[i]["battery_connector_eff"] = PartsOf("esc")[j]["esc_batt_connector_eff"]}

\* what a row of the table shows of a (battery, ESC) pair
BatEscShown(b, e) ==
    [battery_sku |-> b["sku"], esc_sku |-> e["sku"], cell_count |-> b["cell_count"],
     esc_cells_min |-> e["esc_cells_min"], esc_cells_max |-> e["esc_cells_max"]]

BatEscShownOfRow(r) ==
    [battery_sku |-> r.battery_sku, esc_sku |-> r.esc_sku, cell_count |-> r.cell_count,
     esc_cells_min |-> r.esc_cells_min, esc_cells_max |-> r.esc_cells_max]

CellsOutOfRange(r) ==
    /\ Known(r.cell_count) /\ Known(r.esc_cells_min) /\ Known(r.esc_cells_max)
    /\ (r.cell_count.n < r.esc_cells_min.n \/ r.cell_count.n > r.esc_cells_max.n)

\* C15: Compat_battery_esc has exactly one row for each (battery, ESC) pair whose
\* canonical power connectors are both non-null and equal, and no other row; a row is
\* FAIL with reason "Cells out of ESC range" iff the cell count and both ESC bounds are
\* known and the count lies outside the range, and PASS otherwise.
C15_BatteryEsc ==
    \A h \in DOMAIN compat :
        compat[h].raised = "" =>
            /\ Len(BatEscRows(h)) = Cardinality(ConnectorPairs)
            /\ \A p \in ConnectorPairs :
                   LET shown == BatEscShown(PartsOf("battery")[p[1]], PartsOf("esc")[p[2]])
                   IN  Cardinality({k \in 1..Len(BatEscRows(h)) :
                                       BatEscShownOfRow(BatEscRows(h)[k]) = shown})
                       = Cardinality({q \in ConnectorPairs :
                                       BatEscShown(PartsOf("battery")[q[1]], PartsOf("esc")[q[2]]) = shown})
            /\ \A k \in 1..Len(BatEscRows(h)) :
                   LET r == BatEscRows(h)[k]
                   IN  IF CellsOutOfRange(r)
                       THEN r.status = "FAIL" /\ r.reason = "Cells out of ESC range"
                       ELSE r.status = "PASS"

\* C15 witness: matched pairs in range, out of range and of unknown cell count or
\* bounds, beside a battery of another connector and records without a connector
C15_Witness ==
    \E h \in DOMAIN compat :
        /\ compat[h].raised = ""
        /\ \A x \in {"Cells out of ESC range", "Connector + cells OK", "Connector matched"} :
               \E k \in 1..Len(BatEscRows(h)) : BatEscRows(h)[k].reason = x
        /\ \E k \in 1..Len(BatEscRows(h)) :
               ~Known(BatEscRows(h)[k].cell_count) /\ Known(BatEscRows(h)[k].esc_cells_min)
        /\ Cardinality(ConnectorPairs) < Len(PartsOf("battery")) * Len(PartsOf("esc"))
        /\ \E i \in 1..Len(PartsOf("battery")) :
               PartsOf("battery")[i]["battery_connector_eff"] = Str("XT30")

VtxAntRows(h) == compat[h].tables["Compat_vtx_antenna"].rows

\* the antenna gate as the claim states it
C16_Gate(a) ==
    \/ a["antenna_use"].t = "str" /\ Join(Lower(Chars(a["antenna_use"].s))) = "fpv"
    \/ Known(a["antenna_band_ghz"]) /\ a["antenna_band_ghz"].n >= 54 /\ a["antenna_band_ghz"].n <= 62

\* C16: Compat_vtx_antenna has a row for a (vtx, antenna) pair only if the antenna
\* passes the gate (antenna_use "fpv" or band within 5.4..6.2) and both records have the
\* same non-null canonical RF connector; a record whose connector canonicalizes to
\* null, or that has no connector at all, appears in no row.
C16_VtxAntenna ==
    \A h \in DOMAIN compat :
        compat[h].raised = "" =>
            \A k \in 1..Len(VtxAntRows(h)) :
                \E i \in 1..Len(PartsOf("vtx")), j \in 1..Len(PartsOf("antenna")) :
                    LET v == PartsOf("vtx")[i]
                        a == PartsOf("antenna")[j]
                    IN  /\ VtxAntRows(h)[k].vtx_sku = v["sku"]
                        /\ VtxAntRows(h)[k].antenna_sku = a["sku"]
                        /\ C16_Gate(a)
                        /\ ~_canon_connector(v["vtx_ant_conn"]).none
                        /\ _canon_connector(v["vtx_ant_conn"]) = _canon_connector(a["antenna_conn"])
                        /\ VtxAntRows(h)[k].conn = Str(_canon_connector(v["vtx_ant_conn"]).s)

RxAntRows(h) == compat[h].tables["Compat_rx_antenna"].rows

\* the coarse bucket of a frequency in GHz (tenths), "" when it falls in none
C17_Bucket(v) ==
    IF ~Known(v) THEN ""
    ELSE IF v.n > 54 /\ v.n < 62 THEN "5.8"
    ELSE IF v.n > 21 /\ v.n < 27 THEN "2.4"
    ELSE IF v.n >= 7 /\ v.n <= 10 THEN "0.9"
    ELSE ""

\* C17: Compat_rx_antenna has a row for an (rx, antenna) pair only if both have the
\* same non-null canonical RF connector and both frequencies fall in the same bucket
\* (5.8, 2.4 or 0.9); a record whose frequency falls in no bucket, or whose connector
\* canonicalizes to null, matches nothing.
C17_RxAntenna ==
    \A h \in DOMAIN compat :
        compat[h].raised = "" =>
            \A k \in 1..Len(RxAntRows(h)) :
                \E i \in 1..Len(PartsOf("rx")), j \in 1..Len(PartsOf("antenna")) :
                    LET r == PartsOf("rx")[i]
                        a == PartsOf("antenna")[j]
                    IN  /\ RxAntRows(h)[k].rx_sku = r["sku"]
                        /\ RxAntRows(h)[k].antenna_sku = a["sku"]
                        /\ ~_canon_connector(r["rx_ant_conn"]).none
                        /\ _canon_connector(r["rx_ant_conn"]) = _canon_connector(a["antenna_conn"])
                        /\ RxAntRows(h)[k].conn = Str(_canon_connector(r["rx_ant_conn"]).s)
                        /\ C17_Bucket(r["rx_band_ghz"]) # ""
                        /\ C17_Bucket(r["rx_band_ghz"]) = C17_Bucket(a["antenna_band_ghz"])
                        /\ RxAntRows(h)[k].bb = Str(C17_Bucket(r["rx_band_ghz"]))

HubRows(h) == compat[h].tables["Compat_motor_prop_hub"].rows

\* the hub class of a motor record, "" when its shaft gives none
C18_MotorHub(m) ==
    IF ~Known(m["shaft_mm"]) THEN ""
    ELSE IF m["shaft_mm"].n >= 48 THEN "M5"
    ELSE IF m["shaft_mm"].n <= 21 THEN "T-MOUNT"
    ELSE ""

\* the hub class of a prop record, "" when its hub text gives none
C18_PropHub(p) == IF p["prop_hub_eff"].t = "str" THEN p["prop_hub_eff"].s ELSE ""

C18_Status(mh, ph) ==
    IF mh = "" \/ ph = "" THEN "WARN" ELSE IF mh = ph THEN "PASS" ELSE "FAIL"

\* C18: Compat_motor_prop_hub has a row for every motor and every prop; the row is PASS
\* iff both hub classes are resolved and equal, WARN with reason "Insufficient hub/shaft
\* data" iff the motor's or the prop's hub class is unresolved, FAIL iff both are resolved
\* and differ.
C18_MotorPropHub ==
    \A h \in DOMAIN compat :
        compat[h].raised = "" =>
            \A i \in 1..Len(PartsOf("motor")), j \in 1..Len(PartsOf("prop")) :
                \E k \in 1..Len(HubRows(h)) :
                    LET m == PartsOf("motor")[i]
                        p == PartsOf("prop")[j]
                        st == C18_Status(C18_MotorHub(m), C18_PropHub(p))
                    IN  /\ HubRows(h)[k].motor_sku = m["sku"]
                        /\ HubRows(h)[k].prop_sku = p["sku"]
                        /\ HubRows(h)[k].status = st
                        /\ st = "WARN" => HubRows(h)[k].reason = "Insufficient hub/shaft data"

\* the records of type ty that have a mount pattern in column col
C19_Candidates(ty, col) == SelectSeq(PartsOf(ty), LAMBDA r : ~IsNull(r[col]))

\* rows is the cross-product of the candidates L and R, left side first; each row is
\* PASS iff the two pattern sets meet, and is what the rule gives with the sets exchanged
C19_MountRule(rows, L, lcol, lsku, R, rcol, rsku) ==
    /\ Len(rows) = Len(L) * Len(R)
    /\ \A k \in 1..Len(rows) :
           LET x == L[((k - 1) \div Len(R)) + 1]
               y == R[((k - 1) % Len(R)) + 1]
           IN  /\ rows[k][lsku] = x["sku"]
               /\ rows[k][rsku] = y["sku"]
               /\ rows[k].status \in {"PASS", "FAIL"}
               /\ rows[k].status = "PASS" <=> MountSet(x[lcol]) \cap MountSet(y[rcol]) # {}
               /\ rows[k].status = MountVerdict(y[rcol], x[lcol], "").status

\* C19: in Compat_frame_fc, Compat_frame_motor and Compat_esc_fc every candidate pair has
\* a row that is PASS iff the two canonical mount-pattern sets have a common pattern and
\* FAIL otherwise, and exchanging the two pattern sets gives the same verdict.
C19_MountRules ==
    \A h \in DOMAIN compat :
        compat[h].raised = "" =>
            /\ C19_MountRule(compat[h].tables["Compat_frame_fc"].rows,
                             C19_Candidates("frame", "frame_fc_mount_pattern_eff"),
                             "frame_fc_mount_pattern_eff", "frame_sku",
                             C19_Candidates("fc", "fc_mount_pattern_eff"),
                             "fc_mount_pattern_eff", "fc_sku")
            /\ C19_MountRule(compat[h].tables["Compat_frame_motor"].rows,
                             C19_Candidates("frame", "frame_motor_mount_pattern_eff"),
                             "frame_motor_mount_pattern_eff", "frame_sku",
                             C19_Candidates("motor", "motor_mount_pattern_eff"),
                             "motor_mount_pattern_eff", "motor_sku")
            /\ C19_MountRule(compat[h].tables["Compat_esc_fc"].rows,
                             C19_Candidates("esc", "esc_mount_pattern_eff"),
                             "esc_mount_pattern_eff", "esc_sku",
                             C19_Candidates("fc", "fc_mount_pattern_eff"),
                             "fc_mount_pattern_eff", "fc_sku")

\* C19 witness: a frame with two fc patterns passes against an fc with one of them while
\* another frame fails against the same fc
C19_Witness ==
    \E h \in DOMAIN compat :
        /\ compat[h].raised = ""
        /\ \E k, l \in 1..Len(compat[h].tables["Compat_frame_fc"].rows) :
               LET rows == compat[h].tables["Compat_frame_fc"].rows
               IN  /\ rows[k].status = "PASS" /\ rows[l].status = "FAIL"
                   /\ rows[k].fc_sku = rows[l].fc_sku
                   /\ \E i \in 1..Len(PartsOf("frame")) :
                          /\ PartsOf("frame")[i]["sku"] = rows[k].frame_sku
                          /\ Cardinality(MountSet(PartsOf("frame")[i]["frame_fc_mount_pattern_eff"])) = 2

FramePropRows(h) == compat[h].tables["Compat_frame_prop"].rows

\* the frames and the props that have their size field
C20_Frames == SelectSeq(PartsOf("frame"), LAMBDA r : Known(r["frame_max_prop_in"]))
C20_Props == SelectSeq(PartsOf("prop"), LAMBDA r : Known(r["prop_diameter_in"]))

\* C20: Compat_frame_prop has exactly one row for each (frame, prop) pair in which the
\* frame has frame_max_prop_in and the prop has prop_diameter_in, and none for a record
\* without its size field; a row is PASS with reason "Prop diameter <= frame max" iff
\* the prop diameter is at most the frame's maximum (5 against 5 passes, 5.1 against 5
\* fails) and FAIL otherwise.
C20_FrameProp ==
    \A h \in DOMAIN compat :
        compat[h].raised = "" =>
            /\ Len(FramePropRows(h)) = Len(C20_Frames) * Len(C20_Props)
            /\ \A k \in 1..Len(FramePropRows(h)) :
                   LET f == C20_Frames[((k - 1) \div Len(C20_Props)) + 1]
                       p == C20_Props[((k - 1) % Len(C20_Props)) + 1]
                       row == FramePropRows(h)[k]
                   IN  /\ row.frame_sku = f["sku"] /\ row.prop_sku = p["sku"]
                       /\ row.frame_max_prop_in = f["frame_max_prop_in"]
                       /\ row.prop_diameter_in = p["prop_diameter_in"]
                       /\ row.status \in {"PASS", "FAIL"}
                       /\ row.status = "PASS" <=> p["prop_diameter_in"].n <= f["frame_max_prop_in"].n
                       /\ row.status = "PASS" <=> row.reason = "Prop diameter <= frame max"
                       /\ (p["prop_diameter_in"].n = 50 /\ f["frame_max_prop_in"].n = 50)
                              => row.status = "PASS"
                       /\ (p["prop_diameter_in"].n = 51 /\ f["frame_max_prop_in"].n = 50)
                              => row.status = "FAIL"

\* C20 witness: a build with a 5 against 5 row, a 5.1 against 5 row, and a frame and a
\* prop without their size field
C20_Witness ==
    \E h \in DOMAIN compat :
        /\ compat[h].raised = ""
        /\ \E k, l \in 1..Len(FramePropRows(h)) :
               /\ FramePropRows(h)[k].prop_diameter_in = Num(50)
               /\ FramePropRows(h)[k].frame_max_prop_in = Num(50)
               /\ FramePropRows(h)[k].status = "PASS"
               /\ FramePropRows(h)[l].prop_diameter_in = Num(51)
               /\ FramePropRows(h)[l].frame_max_prop_in = Num(50)
               /\ FramePropRows(h)[l].status = "FAIL"
        /\ Len(C20_Frames) < Len(PartsOf("frame"))
        /\ Len(C20_Props) < Len(PartsOf("prop"))

\* C21: when the sources of one load have different column sets, every record whose
\* source names its type in part_type (its name in generic_name) has that value,
\* normalized, in the canonical type (name) column, also when another source of the
\* load uses the canonical column name.
C21_Aliasing ==
    (pc = "loaded" /\ parts.raised = "" /\ Len(parts.rows) = Len(ParsedRecords(files))) =>
        \A i \in 1..Len(parts.rows) :
            LET r == ParsedRecords(files)[i]
            IN  /\ ("part_type" \in DOMAIN r /\ "type" \notin DOMAIN r)
                       => parts.rows[i]["type"] = Str(normalize_type(r["part_type"]))
                /\ ("generic_name" \in DOMAIN r /\ "name" \notin DOMAIN r)
                       => parts.rows[i]["name"] = Str(PyStr(r["generic_name"]))

\* C22: a row of Compat_esc_motor has the reason "cells overlap (current unknown)" only
\* when the ESC continuous current or the motor max current is missing; a pair with
\* both ratings known and the ESC rating below the motor rating never has it.
C22_CurrentUnknown ==
    \A h \in DOMAIN compat :
        compat[h].raised = "" =>
            \A k \in 1..Len(BasicRows(h)) :
                BasicRows(h)[k].reason = "cells overlap (current unknown)" =>
                    \/ ~Known(BasicRows(h)[k].esc_continuous_current_a)
                    \/ ~Known(BasicRows(h)[k].max_current_a)

\* the rows of a mapping item, none for a missing table
C23_Rows(item) == IF item.none THEN <<>> ELSE item.df.rows

\* the number of rows of an item whose status, read as upper-case text, is in S
C23_Count(item, S) ==
    Cardinality({i \in 1..Len(C23_Rows(item)) :
                    /\ "status" \in DOMAIN C23_Rows(item)[i]
                    /\ StatusText(C23_Rows(item)[i].status) \in S})

\* C23: the summary has exactly one row per key of the mapping, and for each key
\* pass + fail + unknown is the number of rows of that key's table (0, 0, 0 for an
\* empty or missing table), with pass the rows whose status is in PASS_VALUES, fail the
\* rows whose status is FAIL and unknown all other rows, WARN rows included.
C23_Partition ==
    spc = "done" =>
        /\ Len(summary) = Len(results)
        /\ \A i \in 1..Len(results) :
               /\ Cardinality({j \in 1..Len(summary) : summary[j].pair = results[i].pair}) = 1
               /\ \A j \in 1..Len(summary) :
                      summary[j].pair = results[i].pair =>
                          /\ summary[j].pass + summary[j].fail + summary[j].unknown
                                 = Len(C23_Rows(results[i]))
                          /\ summary[j].pass = C23_Count(results[i], PASS_VALUES)
                          /\ summary[j].fail = C23_Count(results[i], {"FAIL"})
                          /\ summary[j].unknown >= C23_Count(results[i], {"WARN"})

\* C23 witness: a summary of two tables given in the reverse of their sorted order,
\* one with a PASS and a FAIL row, the other with a WARN row and a row without status text
C23_Witness ==
    /\ spc = "done" /\ Len(summary) = 2
    /\ results[1].pair = summary[2].pair
    /\ summary[2].pass = 1 /\ summary[2].fail = 1 /\ summary[2].unknown = 0
    /\ summary[1].pass = 0 /\ summary[1].fail = 0 /\ summary[1].unknown = 2
    /\ C23_Count(results[2], {"WARN"}) = 1 /\ C23_Count(results[2], {"NAN"}) = 1

====
